---------------------------- MODULE Spec2Model ----------------------------
(***************************************************************************)
(* A model of the opportunity lifecycle pipeline of copy-bot:              *)
(*   - SafetyChecker            (src/src/safety/safetyChecker.ts)          *)
(*   - SimulationEngine         (src/unnamed/part_000)                     *)
(*   - ArbitrageExecutor        (src/unnamed/part_001)                     *)
(*   - TransactionListener      (src/src/listeners/transactionListener.ts) *)
(*   - PolygonArbitrageMonitor and PolygonCopyTradingBot (src/src/index.ts)*)
(*                                                                         *)
(* Each component has its own specification (SpecSafety, SpecExecutor,     *)
(* SpecMonitor, SpecCopyBot, SpecListener) over its own variables; the     *)
(* variables of the other components are left unchanged.                   *)
(*                                                                         *)
(* Conventions.  A JavaScript string is a sequence of one-character        *)
(* strings.  An optional value is a record with a `present`/`set` flag.    *)
(* A JavaScript number that may be NaN is a record [nan, v].  bigint       *)
(* amounts are small integers (the code's arithmetic on them is exact).    *)
(***************************************************************************)
EXTENDS Integers, Sequences, FiniteSets, TLC

VARIABLES
    \* process.env, read by every component (fixed during a run)
    env,
    \* SafetyChecker
    auditLogs,      \* this.auditLogs
    auditFile,      \* the lines appended to auditLogPath
    lastCheck,      \* the last checkOpportunitySafety call: its argument and outcome
    \* SimulationEngine
    lastSim,        \* the last simulate call: its argument, the answers and the outcome
    lastFilter,     \* the last filterProfitable call: its arguments and outcome
    \* ArbitrageExecutor
    executor,       \* [dryRunMode, wallet, flashloanProvider]
    sentTxs,        \* the transactions handed to wallet.sendTransaction
    builtTxs,       \* the number of buildTransaction calls
    lastExec,       \* the last execute call: its argument and outcome
    \* PolygonArbitrageMonitor / PolygonCopyTradingBot
    stats,          \* this.stats
    run,            \* the pipeline run in progress (one handler / processOpportunity)
    calls,          \* the component calls made for the opportunity in progress
    others,         \* the pipeline runs suspended at an await
    delivered,      \* per transaction handled: the tx and what the handler did with it
    \* TransactionListener
    listener,       \* [source, ws, sock, reconnectAttempts, timer]
    scheduled,      \* the delays of the reconnects scheduled since the last open
    emitted,        \* the names of the events the listener has emitted
    txDelivered,    \* the number of 'tx' events emitted
    startOutcome,   \* the outcome of the orchestrator's await txListener.start()
    gaveUp,         \* attemptReconnect took its "max attempts reached" branch
    \* BundleSubmitter
    submitter,      \* [relayType, manifoldClient, edenClient, customRelayUrl]
    lastSubmit,     \* the last submitBundle call: its arguments, the relay's reply, the outcome
    \* PoolAnalyzer
    poolCache,      \* this.poolCache, in insertion order
    now,            \* Date.now()
    lastCacheOp,    \* the last call on the cache: its arguments, the cache before, the outcome
    lastDetect      \* the last detectCrossArbitrage call: its arguments and outcome

vars == <<env, auditLogs, auditFile, lastCheck, executor, sentTxs, builtTxs, lastExec,
          stats, run, calls, listener, scheduled, emitted, txDelivered, startOutcome, gaveUp,
          lastSim, lastFilter, others, delivered, submitter, lastSubmit,
          poolCache, now, lastCacheOp, lastDetect>>

safetyVars   == <<auditLogs, auditFile, lastCheck>>
executorVars == <<executor, sentTxs, builtTxs, lastExec>>
pipelineVars == <<stats, run, calls, others, delivered>>
simulationVars == <<lastSim, lastFilter>>
listenerVars == <<listener, scheduled, emitted, txDelivered, startOutcome, gaveUp>>
submitterVars == <<submitter, lastSubmit>>
analyzerVars == <<poolCache, now, lastCacheOp, lastDetect>>

-----------------------------------------------------------------------------
(* Bounds of the model *)

\* checkOpportunitySafety invocations explored in one behaviour
MaxChecks == 2
\* execute invocations explored in one behaviour
MaxExecs == 2
\* opportunities / transactions one orchestrator behaviour processes
MaxRuns == 2
MaxSuspended == 1
\* stream messages handled in one listener behaviour
MaxMsgs == 2
\* the last instant of the clock
MaxNow == 3

-----------------------------------------------------------------------------
(* JavaScript strings, parseInt and process.env *)

Digits == <<"0", "1", "2", "3", "4", "5", "6", "7", "8", "9">>

IsDigit(c) == \E i \in 1..10 : Digits[i] = c

DigitVal(c) == (CHOOSE i \in 1..10 : Digits[i] = c) - 1

NaN == [nan |-> TRUE, v |-> 0]

Num(n) == [nan |-> FALSE, v |-> n]

\* the value of the longest prefix of decimal digits of s, read after acc
RECURSIVE ParseDigits(_, _)
ParseDigits(s, acc) ==
    IF s = <<>> \/ ~IsDigit(Head(s)) THEN acc
    ELSE ParseDigits(Tail(s), 10 * acc + DigitVal(Head(s)))

RECURSIVE SkipSpaces(_)
SkipSpaces(s) == IF s # <<>> /\ Head(s) = " " THEN SkipSpaces(Tail(s)) ELSE s

\* ECMAScript parseInt(string) without radix, on decimal input: leading white
\* space is skipped, a sign is read, then the longest prefix of digits; NaN when
\* there is none.  (Hexadecimal "0x" input is not in the model's alphabet.)
ParseInt(str) ==
    LET s    == SkipSpaces(str)
        neg  == s # <<>> /\ Head(s) = "-"
        body == IF s # <<>> /\ Head(s) \in {"-", "+"} THEN Tail(s) ELSE s
    IN  IF body = <<>> \/ ~IsDigit(Head(body)) THEN NaN
        ELSE Num(IF neg THEN 0 - ParseDigits(body, 0) ELSE ParseDigits(body, 0))

\* IEEE comparisons of a finite number with a number that may be NaN
LessThan(x, n) == ~n.nan /\ x < n.v

GreaterThan(n, x) == ~n.nan /\ n.v > x

AtLeast(x, n) == ~n.nan /\ x >= n.v

Unset == [set |-> FALSE, val |-> <<>>]

EnvStr(s) == [set |-> TRUE, val |-> s]

\* JavaScript truthiness of process.env.X: set and not the empty string
Truthy(e) == e.set /\ e.val # <<>>

\* process.env.X || dflt
OrDefault(e, dflt) == IF Truthy(e) THEN e.val ELSE dflt

-----------------------------------------------------------------------------
(* The data model: src/src/decoders/calldataDecoder.ts, lines 683-806 *)

\* OpportunityType (the string values of the enum)
OpportunityType ==
    {"cross_dex_arbitrage", "jit_liquidity", "twap_arbitrage", "triangle_cycle",
     "statistical_arbitrage"}

NoToken == [present |-> FALSE, symbol |-> ""]

Token(sym) == [present |-> TRUE, symbol |-> sym]

\* PoolState, with the fields the modelled code reads
PoolState(addr, t0, t1, r0, r1) ==
    [address |-> addr, dexType |-> "quickswap", token0 |-> t0, token1 |-> t1,
     reserve0 |-> r0, reserve1 |-> r1]

NoTx ==
    [present |-> FALSE, hash |-> "", fromIsString |-> TRUE, from |-> <<>>, dataLength |-> 0,
     selector |-> "", amountIn |-> 0]

\* PendingTx: from is a string unless the stream's JSON carried another type in
\* that field (the listener casts without checking).  data is kept by its
\* length, its first ten characters (selector, "" when shorter) and the value of
\* the word that decodeParameters reads as the amount (-1: not a hex number)
PendingTx(h, isStr, f, len, sel, amt) ==
    [present |-> TRUE, hash |-> h, fromIsString |-> isStr, from |-> f, dataLength |-> len,
     selector |-> sel, amountIn |-> amt]

NoSimulation ==
    [present |-> FALSE, success |-> FALSE, outputAmount |-> 0, actualProfit |-> 0,
     actualProfitBPS |-> 0, gasCost |-> 0, flashloanFee |-> 0, netProfit |-> 0,
     netProfitBPS |-> 0, deviations |-> <<>>, revertReason |-> ""]

\* SimulationResult; deviations holds the deviationBPS of each StateDeviation
SimulationResult(ok, out, profit, profitBPS, gas, fee, net, netBPS, devs, reason) ==
    [present |-> TRUE, success |-> ok, outputAmount |-> out, actualProfit |-> profit,
     actualProfitBPS |-> profitBPS, gasCost |-> gas, flashloanFee |-> fee,
     netProfit |-> net, netProfitBPS |-> netBPS, deviations |-> devs,
     revertReason |-> reason]

\* ArbitrageOpportunity
Opportunity(ty, tx, pools, bps, flReq, flAmt, gasEst, pathLen, sim) ==
    [type |-> ty, triggeringTx |-> tx, pools |-> pools, expectedProfitBPS |-> bps,
     flashloanRequired |-> flReq, flashloanAmount |-> flAmt, gasEstimate |-> gasEst,
     pathLength |-> pathLen, simulation |-> sim]

\* the placeholder held where no opportunity has been given yet
NoOpportunity ==
    Opportunity("cross_dex_arbitrage", NoTx, <<>>, 0, FALSE, 0, 0, 0, NoSimulation)

-----------------------------------------------------------------------------
(* SafetyChecker: src/src/safety/safetyChecker.ts *)

DefaultMinProfitBPS == <<"8", "0">>

MaxDeviationBPS == 200

MaxCallDataSize == 10000

MaxRevertThresholdBPS == 500

ExtremeRatio == 100

\* A call that may throw: threw, or the boolean it returned
Returned(b) == [threw |-> FALSE, ok |-> b]

Threw == [threw |-> TRUE, ok |-> FALSE]

\* checkSimulationProfitable(simulation)
\* < replaced by <= at line 150: the minimum itself no longer passes
CheckSimulationProfitableExclusive(sim, e) ==
    LET minProfitBPS == ParseInt(OrDefault(e.MIN_PROFIT_BPS, DefaultMinProfitBPS))
    IN  IF ~sim.success THEN FALSE
        ELSE IF ~minProfitBPS.nan /\ sim.netProfitBPS <= minProfitBPS.v THEN FALSE
        ELSE IF sim.flashloanFee > 0
                /\ sim.actualProfit - sim.gasCost - sim.flashloanFee <= 0 THEN FALSE
        ELSE TRUE

CheckSimulationProfitable(sim, e) ==
    LET minProfitBPS == ParseInt(OrDefault(e.MIN_PROFIT_BPS, DefaultMinProfitBPS))
    IN  IF ~sim.success THEN FALSE
        ELSE IF LessThan(sim.netProfitBPS, minProfitBPS) THEN FALSE
        ELSE IF sim.flashloanFee > 0
                /\ sim.actualProfit - sim.gasCost - sim.flashloanFee <= 0 THEN FALSE
        ELSE TRUE

\* isCompliant(opportunity), lines 377-392
IsCompliant(opp, e) ==
    /\ opp.simulation.present
    /\ opp.simulation.success
    /\ AtLeast(opp.simulation.netProfitBPS,
               ParseInt(OrDefault(e.MIN_PROFIT_BPS, DefaultMinProfitBPS)))

\* isTriggeredByOwnTransaction(tx): tx.from.toLowerCase() throws a TypeError when
\* from is not a string; otherwise both branches return true
IsTriggeredByOwnTransaction(tx, e) ==
    IF ~tx.fromIsString THEN Threw
    ELSE IF tx.from = OrDefault(e.EXECUTOR_ADDRESS, <<>>) THEN Returned(TRUE)
    ELSE Returned(TRUE)

\* ratio > 100 || ratio < 0.01 with ratio = Number(reserve0) / Number(reserve1)
ExtremeState(pool) ==
    /\ pool.reserve0 > 0
    /\ pool.reserve1 > 0
    /\ \/ pool.reserve0 > ExtremeRatio * pool.reserve1
       \/ ExtremeRatio * pool.reserve0 < pool.reserve1

\* checkNoNegativeExternalities(opportunity)
CheckNoNegativeExternalities(opp, e) ==
    LET own == IF opp.triggeringTx.present
               THEN IsTriggeredByOwnTransaction(opp.triggeringTx, e)
               ELSE Returned(TRUE)
    IN  IF own.threw THEN Threw
        ELSE IF ~own.ok THEN Returned(FALSE)
        ELSE IF \E i \in 1..Len(opp.pools) : ExtremeState(opp.pools[i])
             THEN Returned(FALSE)
        ELSE IF /\ opp.simulation.present
                /\ \E i \in 1..Len(opp.simulation.deviations) :
                       opp.simulation.deviations[i] > MaxDeviationBPS
             THEN Returned(FALSE)
        ELSE Returned(TRUE)

\* checkNoFrontrunning(opportunity): callDataSize = data.length / 2 > 10000
\* the fault C15 excludes: a check that looks at the trail of earlier invocations
CheckNoFrontrunningOnce(opp) ==
    /\ Len(auditLogs) = 0
    /\ ~(opp.triggeringTx.present /\ opp.triggeringTx.dataLength > 2 * MaxCallDataSize)

CheckNoFrontrunning(opp) ==
    IF opp.triggeringTx.present /\ opp.triggeringTx.dataLength > 2 * MaxCallDataSize
    THEN FALSE
    ELSE TRUE

\* checkRevertOnDeviation(opportunity)
CheckRevertOnDeviation(e) ==
    IF ~Truthy(e.REVERT_ON_DEVIATION_SLIPPAGE_BPS) THEN FALSE
    ELSE IF GreaterThan(ParseInt(e.REVERT_ON_DEVIATION_SLIPPAGE_BPS.val),
                        MaxRevertThresholdBPS) THEN FALSE
    ELSE TRUE

NoChecks ==
    [simulationProfitable |-> FALSE, noNegativeExternalities |-> FALSE,
     noFrontrunning |-> FALSE, revertOnDeviation |-> FALSE, auditLogCreated |-> FALSE]

\* the AuditLog that createAuditLog builds; building it throws (p.token0.symbol)
\* when a pool carries no token0 or token1
AuditLogThrows(opp) ==
    \E i \in 1..Len(opp.pools) :
        ~opp.pools[i].token0.present \/ ~opp.pools[i].token1.present

AuditLog(opp, checks, failures) ==
    [type |-> "safety_check_failed",
     opportunityType |-> opp.type,
     expectedProfit |-> opp.expectedProfitBPS,
     checks |-> checks,
     failures |-> failures,
     pools |-> [i \in 1..Len(opp.pools) |-> opp.pools[i].address],
     severity |-> IF Len(failures) > 0 THEN "warning" ELSE "info"]

\* the overall result (line 106)
\* the fault C4 excludes: a result that also depends on the audit bookkeeping
PassedIfAudited(failures, checks) ==
    Len(failures) = 0 /\ checks.simulationProfitable /\ checks.auditLogCreated

Passed(failures, checks) == Len(failures) = 0 /\ checks.simulationProfitable

\* where a failed deviation-guard check is recorded (line 97)
DeviationGuardFailure(failures, warnings) ==
    [failures |-> failures,
     warnings |-> Append(warnings, "Revert-on-deviation safety check failed")]

\* the fault C14 excludes: a battery that stops at the first failed check
CheckOpportunitySafetyShortCircuit(opp, e, fsOk) ==
    LET c1 == IF opp.simulation.present
              THEN CheckSimulationProfitable(opp.simulation, e) ELSE FALSE
        r2 == CheckNoNegativeExternalities(opp, e)
        c2 == c1 /\ ~r2.threw /\ r2.ok
        c3 == c2 /\ CheckNoFrontrunning(opp)
        c4 == c3 /\ CheckRevertOnDeviation(e)
        failures == IF ~c1 THEN <<"Simulation shows no profit after gas costs">>
                    ELSE IF ~c2 THEN <<"Opportunity may negatively impact other users">>
                    ELSE IF ~c3
                    THEN <<"Opportunity has frontrunning/sandwich attack characteristics">>
                    ELSE <<>>
        checks == [simulationProfitable |-> c1, noNegativeExternalities |-> c2,
                   noFrontrunning |-> c3, revertOnDeviation |-> c4,
                   auditLogCreated |-> ~AuditLogThrows(opp)]
    IN  [threw |-> FALSE, passed |-> Passed(failures, checks), checks |-> checks,
         failures |-> failures, warnings |-> <<>>,
         pushed |-> IF ~AuditLogThrows(opp) THEN <<AuditLog(opp, checks, failures)>>
                    ELSE <<>>,
         written |-> <<>>]

\* checkOpportunitySafety(opportunity): the SafetyCheckResult, the entries pushed
\* on this.auditLogs and the lines appended to the file (fsOk: appendFileSync
\* succeeds).  The entry in memory aliases `checks`, so it shows the
\* auditLogCreated flag set after the push; the line written before does not.
CheckOpportunitySafety(opp, e, fsOk) ==
    LET c1 == IF opp.simulation.present
              THEN CheckSimulationProfitable(opp.simulation, e) ELSE FALSE
        f1 == IF opp.simulation.present
              THEN IF c1 THEN <<>> ELSE <<"Simulation shows no profit after gas costs">>
              ELSE <<"Opportunity not simulated before safety check">>
        checks1 == [NoChecks EXCEPT !.simulationProfitable = c1]
        r2 == CheckNoNegativeExternalities(opp, e)
    IN  IF r2.threw
        THEN \* the catch block, lines 125-135
             [threw |-> TRUE, passed |-> FALSE, checks |-> checks1,
              failures |-> Append(f1, "Safety check error"), warnings |-> <<>>,
              pushed |-> <<>>, written |-> <<>>]
        ELSE
        LET f2 == IF r2.ok THEN f1
                  ELSE Append(f1, "Opportunity may negatively impact other users")
            c3 == CheckNoFrontrunning(opp)
            f3 == IF c3 THEN f2
                  ELSE Append(f2, "Opportunity has frontrunning/sandwich attack characteristics")
            c4 == CheckRevertOnDeviation(e)
            fw == IF c4 THEN [failures |-> f3, warnings |-> <<>>]
                  ELSE DeviationGuardFailure(f3, <<>>)
            checks4 == [checks1 EXCEPT !.noNegativeExternalities = r2.ok,
                                       !.noFrontrunning = c3,
                                       !.revertOnDeviation = c4]
            created == ~AuditLogThrows(opp)
            checks5 == [checks4 EXCEPT !.auditLogCreated = created]
        IN  [threw |-> FALSE,
             passed |-> Passed(fw.failures, checks5),
             checks |-> checks5,
             failures |-> fw.failures,
             warnings |-> fw.warnings,
             pushed |-> IF created THEN <<AuditLog(opp, checks5, fw.failures)>> ELSE <<>>,
             written |-> IF created /\ fsOk
                         THEN <<AuditLog(opp, checks4, fw.failures)>> ELSE <<>>]

\* the SafetyCheckResult of an outcome (threw: the catch block built it)
SafetyCheckResult(r) ==
    [threw |-> r.threw, passed |-> r.passed, checks |-> r.checks,
     failures |-> r.failures, warnings |-> r.warnings]

\* the placeholder held where no check has been made yet
NoSafetyResult ==
    [threw |-> FALSE, passed |-> FALSE, checks |-> NoChecks, failures |-> <<>>,
     warnings |-> <<>>]

\* the state of the SafetyChecker after its constructor
InitSafetyChecker ==
    /\ auditLogs = <<>>
    /\ auditFile = <<>>
    /\ lastCheck = [n |-> 0, opp |-> NoOpportunity, result |-> NoSafetyResult,
                    logsBefore |-> 0, fileBefore |-> 0,
                    again |-> FALSE, sameAsBefore |-> FALSE]

\* the fault C16 excludes: a trail that keeps the entry of the last check only
SafetyCheckKeepingLast(opp, fsOk) ==
    LET r == CheckOpportunitySafety(opp, env, fsOk)
    IN  /\ lastCheck.n < MaxChecks
        /\ auditLogs' = r.pushed
        /\ auditFile' = auditFile \o r.written
        /\ lastCheck' = [n |-> lastCheck.n + 1, opp |-> opp,
                         result |-> SafetyCheckResult(r),
                         logsBefore |-> Len(auditLogs), fileBefore |-> Len(auditFile),
                         again |-> FALSE, sameAsBefore |-> FALSE]
        /\ UNCHANGED <<env, executorVars, pipelineVars, listenerVars, simulationVars, submitterVars, analyzerVars>>

\* one checkOpportunitySafety call of a client of the SafetyChecker; again: the
\* argument is the one of the call before; sameAsBefore: so is the result
SafetyCheck(opp, fsOk) ==
    LET r == CheckOpportunitySafety(opp, env, fsOk)
    IN  /\ lastCheck.n < MaxChecks
        /\ auditLogs' = auditLogs \o r.pushed
        /\ auditFile' = auditFile \o r.written
        /\ lastCheck' = [n |-> lastCheck.n + 1, opp |-> opp,
                         result |-> SafetyCheckResult(r),
                         logsBefore |-> Len(auditLogs), fileBefore |-> Len(auditFile),
                         again |-> (lastCheck.n > 0 /\ opp = lastCheck.opp),
                         sameAsBefore |-> (SafetyCheckResult(r) = lastCheck.result)]
        /\ UNCHANGED <<env, executorVars, pipelineVars, listenerVars, simulationVars, submitterVars, analyzerVars>>


-----------------------------------------------------------------------------
(* SimulationEngine: src/unnamed/part_000 *)

BPS == 10000

FlashloanFeeDivisor == 1000

\* buildArbitrageTransaction(opportunity), lines 129-138: the template the
\* simulators are given; it throws on an empty pool list
BuildArbitrageTransaction(opp) ==
    [to |-> opp.pools[1].address, gasLimit |-> opp.gasEstimate]

\* the constructor creates the Tenderly client (lines 61-72)
TenderlyConfigured(e) ==
    Truthy(e.TENDERLY_API_KEY) /\ Truthy(e.TENDERLY_PROJECT) /\ Truthy(e.TENDERLY_USER)

\* what an external simulator answers: kind "error" (network, auth, timeout,
\* malformed response), "reverted", or "ok" with the output amount and gas cost
Answer(kind, out, gas) == [kind |-> kind, output |-> out, gasCost |-> gas]

\* the fault C12 excludes: a negative result that does not say why
FailedSimulationNoReason(reason) ==
    SimulationResult(FALSE, 0, 0, 0, 0, 0, 0, 0, <<>>, "")

FailedSimulation(reason) ==
    SimulationResult(FALSE, 0, 0, 0, 0, 0, 0, 0, <<>>, reason)

\* lines 199-215 and 238-269: the result computed from a successful answer;
\* (x * 10000n) / inputValue throws a RangeError when inputValue is 0n
ProfitThrows(opp) ==
    opp.pools[1].reserve0 = 0

\* the result with the flashloan fee taken out of netProfit
ProfitResultNetOfFee(opp, a) ==
    LET inputValue == opp.pools[1].reserve0
        profit     == IF a.output > inputValue THEN a.output - inputValue ELSE 0
        profitBPS  == IF profit > 0 THEN (profit * BPS) \div inputValue ELSE 0
        fee        == IF opp.flashloanRequired
                      THEN opp.flashloanAmount \div FlashloanFeeDivisor ELSE 0
    IN  SimulationResult(TRUE, a.output, profit, profitBPS, a.gasCost, fee,
            IF profit > a.gasCost + fee THEN profit - a.gasCost - fee ELSE 0,
            profitBPS - ((a.gasCost * BPS) \div inputValue),
            <<>>, "")

ProfitResult(opp, a) ==
    LET inputValue == opp.pools[1].reserve0
        profit     == IF a.output > inputValue THEN a.output - inputValue ELSE 0
        profitBPS  == IF profit > 0 THEN (profit * BPS) \div inputValue ELSE 0
    IN  SimulationResult(TRUE, a.output, profit, profitBPS, a.gasCost,
            IF opp.flashloanRequired THEN opp.flashloanAmount \div FlashloanFeeDivisor ELSE 0,
            IF profit > a.gasCost THEN profit - a.gasCost ELSE 0,
            profitBPS - ((a.gasCost * BPS) \div inputValue),
            <<>>, "")

\* simulateWithTenderly(tx, opportunity): a SimulationResult, or null
SimulateWithTenderly(opp, a) ==
    IF a.kind = "error" THEN NoSimulation
    ELSE IF a.kind = "reverted" THEN FailedSimulation("Unknown revert")
    ELSE IF ProfitThrows(opp) THEN NoSimulation
    ELSE ProfitResult(opp, a)

\* simulateWithAnvil with the divisions skipped for an input value of 0n
SimulateWithAnvilGuarded(opp, a) ==
    IF a.kind # "ok" THEN [threw |-> TRUE, result |-> NoSimulation]
    ELSE IF ProfitThrows(opp)
    THEN [threw |-> FALSE,
          result |-> SimulationResult(TRUE, a.output, a.output, 0, a.gasCost, 0,
                        IF a.output > a.gasCost THEN a.output - a.gasCost ELSE 0,
                        0, <<>>, "")]
    ELSE [threw |-> FALSE, result |-> ProfitResult(opp, a)]

\* simulateWithAnvil(tx, opportunity): a SimulationResult, or the error rethrown
SimulateWithAnvil(opp, a) ==
    IF a.kind # "ok" THEN [threw |-> TRUE, result |-> NoSimulation]
    ELSE IF ProfitThrows(opp) THEN [threw |-> TRUE, result |-> NoSimulation]
    ELSE [threw |-> FALSE, result |-> ProfitResult(opp, a)]

\* the fault C11 excludes: a simulate that gives up when the remote simulator
\* fails, without asking the fork node
SimulateNoFallback(opp, tenderly, aT, aA) ==
    IF Len(opp.pools) = 0
    THEN FailedSimulation("TypeError")
    ELSE IF tenderly
    THEN LET t == SimulateWithTenderly(opp, aT)
         IN  IF t.present THEN t ELSE FailedSimulation("Error")
    ELSE LET v == SimulateWithAnvil(opp, aA)
         IN  IF v.threw THEN FailedSimulation("Error") ELSE v.result

\* simulate(opportunity), for an engine with or without the Tenderly client and
\* the answers aT, aA the two simulators give
Simulate(opp, tenderly, aT, aA) ==
    IF Len(opp.pools) = 0
    THEN FailedSimulation("TypeError")       \* buildArbitrageTransaction: pools[0].address
    ELSE LET t == IF tenderly THEN SimulateWithTenderly(opp, aT) ELSE NoSimulation
             v == SimulateWithAnvil(opp, aA)
         IN  IF t.present THEN t
             ELSE IF v.threw THEN FailedSimulation("Error")
             ELSE v.result

\* the simulators simulate(opportunity) calls, in order (lines 93-106)
SimulatorsConsulted(opp, tenderly, aT) ==
    IF Len(opp.pools) = 0 THEN <<>>
    ELSE (IF tenderly THEN <<"tenderly">> ELSE <<>>)
         \o (IF tenderly /\ SimulateWithTenderly(opp, aT).present THEN <<>>
             ELSE <<"anvil">>)

\* the fault C13 excludes: a filter that lets an opportunity through when there
\* is no simulation to judge it by
FilteredIfSimulated(opp, minNetProfitBPS, maxGasSpendBPS) ==
    IF ~opp.simulation.present THEN "keep"
    ELSE IF opp.simulation.netProfitBPS < minNetProfitBPS THEN "drop"
    ELSE "keep"

\* one element of filterProfitable's callback (lines 300-353): it is kept,
\* dropped, or the callback throws (opp.pools[0] of an empty list, a bigint
\* division by 0n)
Filtered(opp, minNetProfitBPS, maxGasSpendBPS) ==
    IF ~opp.simulation.present THEN "drop"
    ELSE IF opp.simulation.netProfitBPS < minNetProfitBPS THEN "drop"
    ELSE IF Len(opp.pools) = 0 THEN "throw"
    ELSE IF opp.simulation.gasCost > 0 /\ opp.pools[1].reserve0 = 0 THEN "throw"
    ELSE IF (IF opp.simulation.gasCost > 0
             THEN (opp.simulation.gasCost * BPS) \div opp.pools[1].reserve0
             ELSE 0) > maxGasSpendBPS
    THEN "drop"
    ELSE IF \E i \in 1..Len(opp.simulation.deviations) :
               opp.simulation.deviations[i] > MaxDeviationBPS
    THEN "drop"
    ELSE "keep"

\* filterProfitable(opportunities, minNetProfitBPS, maxGasSpendBPS): the list
\* returned, or the callback's exception escaping
FilterProfitable(opps, minNetProfitBPS, maxGasSpendBPS) ==
    LET keep(opp) == Filtered(opp, minNetProfitBPS, maxGasSpendBPS)
    IN  IF \E i \in 1..Len(opps) : keep(opps[i]) = "throw"
        THEN [threw |-> TRUE, kept |-> <<>>]
        ELSE [threw |-> FALSE, kept |-> SelectSeq(opps, LAMBDA o : keep(o) = "keep")]

\* the engine before its first call
InitSimulationEngine ==
    /\ lastSim = [called |-> FALSE, opp |-> NoOpportunity, tenderly |-> FALSE,
                  aT |-> Answer("error", 0, 0), aA |-> Answer("error", 0, 0),
                  tx |-> [to |-> "", gasLimit |-> 0],
                  result |-> NoSimulation, consulted |-> <<>>]
    /\ lastFilter = [called |-> FALSE, opps |-> <<>>, minNetProfitBPS |-> 0,
                     maxGasSpendBPS |-> 0, threw |-> FALSE, kept |-> <<>>]

\* one simulate call of a client of the engine; aT, aA: what the remote
\* simulator and the fork node answer if asked
SimulateCall(opp, aT, aA) ==
    /\ lastSim' = [called |-> TRUE, opp |-> opp, tenderly |-> TenderlyConfigured(env),
                   aT |-> aT, aA |-> aA,
                   tx |-> IF Len(opp.pools) = 0 THEN [to |-> "", gasLimit |-> 0]
                          ELSE BuildArbitrageTransaction(opp),
                   result |-> Simulate(opp, TenderlyConfigured(env), aT, aA),
                   consulted |-> SimulatorsConsulted(opp, TenderlyConfigured(env), aT)]
    /\ UNCHANGED <<env, lastFilter, safetyVars, executorVars, pipelineVars, listenerVars,
                   submitterVars, analyzerVars>>

\* one filterProfitable call of a client of the engine
FilterCall(opps, minNetProfitBPS, maxGasSpendBPS) ==
    LET r == FilterProfitable(opps, minNetProfitBPS, maxGasSpendBPS)
    IN  /\ lastFilter' = [called |-> TRUE, opps |-> opps,
                          minNetProfitBPS |-> minNetProfitBPS,
                          maxGasSpendBPS |-> maxGasSpendBPS,
                          threw |-> r.threw, kept |-> r.kept]
        /\ UNCHANGED <<env, lastSim, safetyVars, executorVars, pipelineVars, listenerVars,
                       submitterVars, analyzerVars>>

-----------------------------------------------------------------------------
(* BundleSubmitter: src/unnamed/part_001, lines 20-330 *)

\* the relay types initializeClients knows, lines 32 and 39
ManifoldRelay == <<"m", "a", "n", "i", "f", "o", "l", "d">>

EdenRelay == <<"e", "d", "e", "n">>

\* constructor and initializeClients, lines 26-49
BundleSubmitter(relayType, e) ==
    [relayType      |-> relayType,
     manifoldClient |-> relayType = ManifoldRelay,
     edenClient     |-> relayType = EdenRelay,
     customRelayUrl |-> IF relayType \in {ManifoldRelay, EdenRelay} THEN <<>>
                        ELSE OrDefault(e.CUSTOM_RELAY_URL, <<>>)]

\* initialize(), index.ts lines 93-95: the submitter both orchestrators construct
InitializedSubmitter(e) ==
    BundleSubmitter(OrDefault(e.BUNDLE_RELAY_TYPE, ManifoldRelay), e)

\* what client.post resolves or rejects with. kind: "reply" (a 2xx response),
\* "network" or "timeout" (axios rejects); body: response.data is an object;
\* error: response.data.error; result, bundleHash, hash: the hash fields of the body
RelayReply(kind, body, error, result, bundleHash, hash) ==
    [kind |-> kind, body |-> body, error |-> error, result |-> result,
     bundleHash |-> bundleHash, hash |-> hash]

NoReply == RelayReply("network", FALSE, <<>>, <<>>, <<>>, <<>>)

\* the outcomes of the submit paths: a rejection with an Error, or a result
RelayThrew(msg) ==
    [threw |-> TRUE, error |-> msg, status |-> "", bundleHash |-> <<>>]

BundleSubmitted(h) ==
    [threw |-> FALSE, error |-> <<>>, status |-> "submitted", bundleHash |-> h]

\* the result the catch of submitBundle returns, lines 78-86
BundleFailed(msg) ==
    [threw |-> FALSE, error |-> msg, status |-> "failed", bundleHash |-> <<>>]

\* a || b on two strings
OrElse(a, b) == IF a # <<>> THEN a ELSE b

\* the part the JSON-RPC relays share, lines 121-143 and 173-195
RpcReply(name, reply) ==
    IF reply.kind # "reply" THEN RelayThrew(<<reply.kind>>)
    ELSE IF ~reply.body THEN RelayThrew(<<"TypeError">>)
    ELSE IF reply.error # <<>> THEN RelayThrew(<<name, " error: ">> \o reply.error)
    ELSE BundleSubmitted(reply.result)

\* submitToManifold, lines 92-144
SubmitToManifold(s, reply) ==
    IF ~s.manifoldClient THEN RelayThrew(<<"Manifold client not initialized">>)
    ELSE RpcReply("Manifold", reply)

\* submitToEden, lines 149-196
SubmitToEden(s, reply) ==
    IF ~s.edenClient THEN RelayThrew(<<"Eden client not initialized">>)
    ELSE RpcReply("Eden", reply)

\* submitToCustomRelay, lines 201-243: response.data.error is not read
SubmitToCustomRelay(s, reply) ==
    IF s.customRelayUrl = <<>> THEN RelayThrew(<<"Custom relay URL not configured">>)
    ELSE IF reply.kind # "reply" THEN RelayThrew(<<reply.kind>>)
    ELSE IF ~reply.body THEN RelayThrew(<<"TypeError">>)
    ELSE BundleSubmitted(OrElse(reply.bundleHash, reply.hash))

\* submitBundle(bundleTxs, bundleConfig), lines 54-87; txsOk: bundleTxs is an
\* array (bundleTxs.length at line 62 throws inside the try otherwise)
SubmitBundle(s, txsOk, reply) ==
    LET r == IF ~txsOk THEN RelayThrew(<<"TypeError">>)
             ELSE IF s.relayType = ManifoldRelay THEN SubmitToManifold(s, reply)
             ELSE IF s.relayType = EdenRelay THEN SubmitToEden(s, reply)
             ELSE SubmitToCustomRelay(s, reply)
    IN  IF r.threw THEN BundleFailed(r.error) ELSE r

\* the submitter before its first call
InitBundleSubmitter ==
    /\ submitter = InitializedSubmitter(env)
    /\ lastSubmit = [called |-> FALSE, txsOk |-> TRUE, reply |-> NoReply,
                     result |-> BundleFailed(<<>>)]

\* one submitBundle call of a client of the submitter
SubmitCall(txsOk, reply) ==
    /\ lastSubmit' = [called |-> TRUE, txsOk |-> txsOk, reply |-> reply,
                      result |-> SubmitBundle(submitter, txsOk, reply)]
    /\ UNCHANGED <<env, submitter, safetyVars, executorVars, pipelineVars, listenerVars,
                   simulationVars, analyzerVars>>

-----------------------------------------------------------------------------
(* ArbitrageExecutor: src/unnamed/part_001, lines 380-779 *)

MinExecutionProfitBPS == 50

GasBufferPercent == 120

TriangleGasPerHop == 150000

JitGasLimit == 300000

HashLength == 64

\* new ArbitrageExecutor(provider, flashloanConfig, dryRunMode, privateKey)
ArbitrageExecutor(flProvider, dryRunMode, privateKey) ==
    [dryRunMode |-> dryRunMode,
     wallet |-> Truthy(privateKey) /\ ~dryRunMode,
     flashloanProvider |-> flProvider]

NoTxRequest == [to |-> "", gasLimit |-> 0]

Built(to, gas) == [threw |-> FALSE, error |-> "", tx |-> [to |-> to, gasLimit |-> gas]]

BuildThrew(msg) == [threw |-> TRUE, error |-> msg, tx |-> NoTxRequest]

\* buildFlashloanTransaction(opportunity)
BuildFlashloanTransaction(opp, ex) ==
    IF Len(opp.pools) = 0 \/ ~opp.pools[1].token0.present THEN BuildThrew("TypeError")
    ELSE Built("flashloanConfig.address", opp.gasEstimate)

\* buildCrossArbitrageTransaction(opportunity)
BuildCrossArbitrageTransaction(opp) ==
    IF Len(opp.pools) < 2 THEN BuildThrew("TypeError")
    ELSE IF ~opp.pools[1].token0.present \/ ~opp.pools[1].token1.present
    THEN BuildThrew("TypeError")
    ELSE Built(opp.pools[1].address, opp.gasEstimate)

\* buildTransaction(opportunity)
BuildTransaction(opp, ex) ==
    CASE opp.type = "cross_dex_arbitrage" -> BuildCrossArbitrageTransaction(opp)
      [] opp.type = "twap_arbitrage" ->
            IF ~opp.flashloanRequired THEN BuildThrew("TWAP arbitrage requires flashloan")
            ELSE BuildFlashloanTransaction(opp, ex)
      [] opp.type = "triangle_cycle" ->
            IF Len(opp.pools) = 0 THEN BuildThrew("TypeError")
            ELSE Built(opp.pools[1].address, opp.pathLength * TriangleGasPerHop)
      [] opp.type = "jit_liquidity" ->
            IF Len(opp.pools) = 0 THEN BuildThrew("TypeError")
            ELSE Built(opp.pools[1].address, JitGasLimit)
      [] OTHER -> BuildThrew("Unsupported opportunity type")

\* addSafetyParameters(tx, opportunity)
AddSafetyParameters(tx) ==
    [tx EXCEPT !.gasLimit = (tx.gasLimit * GasBufferPercent) \div 100]

RECURSIVE PadEnd(_, _, _)
PadEnd(s, n, c) == IF Len(s) >= n THEN s ELSE PadEnd(Append(s, c), n, c)

\* simulateExecute(opportunity); frac: the hexadecimal digits of
\* Math.random().toString(16).slice(2)
SimulateExecute(opp, frac) ==
    [threw |-> FALSE, status |-> "submitted", error |-> "",
     bundleHash |-> <<"0", "x">> \o PadEnd(frac, HashLength, "0"),
     built |-> 0, sent |-> <<>>]

ExecFailed(msg, built) ==
    [threw |-> FALSE, status |-> "failed", error |-> msg, bundleHash |-> <<>>,
     built |-> built, sent |-> <<>>]

ExecThrew(msg) ==
    [threw |-> TRUE, status |-> "", error |-> msg, bundleHash |-> <<>>,
     built |-> 0, sent |-> <<>>]

\* the hash of a transaction the network accepted
NetworkHash == <<"0", "x">> \o PadEnd(<<>>, HashLength, "f")

\* the re-validation of lines 689-691
StillProfitable(opp) ==
    ~(~opp.simulation.present \/ opp.simulation.netProfitBPS < MinExecutionProfitBPS)

\* the fault C8 excludes: an execute that asks for the wallet before it looks at
\* the dry-run flag
ExecuteWalletFirst(opp, ex, sendOk, frac) ==
    IF ~ex.wallet THEN ExecThrew("Wallet not configured for execution")
    ELSE IF ex.dryRunMode THEN SimulateExecute(opp, frac)
    ELSE ExecFailed("Opportunity no longer profitable", 0)

\* execute(opportunity): what the returned promise settles to (threw: it
\* rejects), the number of buildTransaction calls and the transactions handed to
\* wallet.sendTransaction.  sendOk: sendTransaction resolves; frac:
\* Math.random's digits
Execute(opp, ex, sendOk, frac) ==
    IF ex.dryRunMode THEN SimulateExecute(opp, frac)
    ELSE IF ~ex.wallet THEN ExecThrew("Wallet not configured for execution")
    ELSE IF ~StillProfitable(opp) THEN ExecFailed("Opportunity no longer profitable", 0)
    ELSE LET b == BuildTransaction(opp, ex)
         IN  IF b.threw THEN ExecFailed(b.error, 1)
             ELSE IF ~sendOk
                  THEN [ExecFailed("send error", 1) EXCEPT
                           !.sent = <<AddSafetyParameters(b.tx)>>]
             ELSE [threw |-> FALSE, status |-> "submitted", error |-> "",
                   bundleHash |-> NetworkHash, built |-> 1,
                   sent |-> <<AddSafetyParameters(b.tx)>>]

\* the state of an executor before its first call
InitExecutorState ==
    /\ sentTxs = <<>>
    /\ builtTxs = 0
    /\ lastExec = [n |-> 0, opp |-> NoOpportunity,
                   outcome |-> ExecThrew(""), sentBefore |-> 0, builtBefore |-> 0]

\* one execute call of a client of the executor
ExecuteCall(opp, sendOk, frac) ==
    LET r == Execute(opp, executor, sendOk, frac)
    IN  /\ lastExec.n < MaxExecs
        /\ sentTxs' = sentTxs \o r.sent
        /\ builtTxs' = builtTxs + r.built
        /\ lastExec' = [n |-> lastExec.n + 1, opp |-> opp, outcome |-> r,
                        sentBefore |-> Len(sentTxs), builtBefore |-> builtTxs]
        /\ UNCHANGED <<env, executor, safetyVars, pipelineVars, listenerVars, simulationVars, submitterVars, analyzerVars>>


-----------------------------------------------------------------------------
(* decodeCalldata and the extractors: src/src/decoders/calldataDecoder.ts *)

\* FUNCTION_SIGNATURES: the type of each known selector
SwapSelectors ==
    {"0x38ed1739", "0x8803dbee", "0x1f00ca16", "0x414bf389", "0xc04b8d59", "0x00878796"}

LiquiditySelectors ==
    {"0xe8e33700", "0x5b0d5984", "0x83800a8e", "0x2e1a7d4d", "0x5b8c41e6", "0x0c49ccbe"}

FlashLoanSelectors == {"0xab9c4b5d", "0x23e30c8b", "0xd14d7cc1"}

\* decodeParameters(selector, data): the names of the arguments it sets
DecodeParameters(selector) ==
    CASE selector = "0x38ed1739" -> {"amountIn", "amountOutMin", "path_offset", "to", "deadline"}
      [] selector = "0x1f00ca16" -> {"tokenIn", "tokenOut", "fee", "recipient", "deadline",
                                     "amountIn", "amountOutMinimum"}
      [] selector = "0xc04b8d59" -> {"poolId", "tokenIn", "tokenOut", "amount"}
      [] selector = "0x5b0d5984" -> {"token", "amountTokenDesired", "amountTokenMin",
                                     "amountETHMin", "to", "deadline"}
      [] selector \in {"0xab9c4b5d", "0x23e30c8b"} -> {"receiver", "token", "amount"}
      [] selector = "0xd14d7cc1" -> {"receiver", "tokens_offset", "amounts_offset"}
      [] OTHER -> {"param0"}

\* decodeCalldata(to, data)
DecodeCalldata(tx) ==
    LET selector == IF tx.dataLength < 10 THEN "" ELSE tx.selector
    IN  IF selector \in SwapSelectors
        THEN [type |-> "swap", args |-> DecodeParameters(selector)]
        ELSE IF selector \in LiquiditySelectors
        THEN [type |-> "liquidity", args |-> DecodeParameters(selector)]
        ELSE IF selector \in FlashLoanSelectors
        THEN [type |-> "flash_loan", args |-> DecodeParameters(selector)]
        ELSE [type |-> "unknown", args |-> {}]

\* extractTokenPair(decoded) # null
ExtractTokenPair(decoded) ==
    /\ decoded.type = "swap"
    /\ "tokenIn" \in decoded.args \/ "token" \in decoded.args
    /\ "tokenOut" \in decoded.args

\* extractSwapAmount(decoded) # null
ExtractSwapAmount(decoded) ==
    /\ decoded.type = "swap"
    /\ "amountIn" \in decoded.args \/ "amount" \in decoded.args

-----------------------------------------------------------------------------
(* The orchestrators: src/src/index.ts *)

\* 1e18 wei; amounts are counted in units of 1e14 wei
MinSwapSize == 10000

CopyExpectedProfitBPS == 50

CopyGasEstimate == 150000

True == <<"t", "r", "u", "e">>

ExecutionEnabled(e) == e.ENABLE_EXECUTION.set /\ e.ENABLE_EXECUTION.val = True

\* initialize(): the executor both orchestrators construct (lines 79-91, 428-440)
InitializedExecutor(e) ==
    ArbitrageExecutor("aave", ~ExecutionEnabled(e), e.EXECUTOR_PRIVATE_KEY)

InitStats ==
    [txsProcessed |-> 0, opportunitiesFound |-> 0, opportunitiesSimulated |-> 0,
     opportunitiesExecuted |-> 0, totalProfit |-> 0]

\* a pipeline run that has not taken up an opportunity yet
IdleRun ==
    [pc |-> "idle", n |-> 0, opp |-> NoOpportunity, safety |-> NoSafetyResult,
     outcome |-> ExecThrew("")]

InitPipeline ==
    /\ stats = InitStats
    /\ run = IdleRun
    /\ calls = <<>>
    /\ others = <<>>
    /\ delivered = <<>>

Finish(r) == [r EXCEPT !.pc = "done"]

\* what one call of handleIncomingTransaction did with the transaction it was
\* given: the opportunities detectOpportunities returned (lines 509-520), whether
\* execute was called (lines 636-644) and how that call ended
Handled(tx, opps, executed, outcome) ==
    [tx |-> tx, opps |-> opps, executed |-> executed, outcome |-> outcome]

(* PolygonArbitrageMonitor.processOpportunity, lines 192-285, cut at its awaits *)

\* lines 193-201: simulate is called
MonitorProcessOpportunity(opp) ==
    /\ run.pc \in {"idle", "done"}
    /\ run.n < MaxRuns
    /\ run' = [pc |-> "simulate", n |-> run.n + 1, opp |-> opp,
               safety |-> NoSafetyResult, outcome |-> ExecThrew("")]
    /\ calls' = <<"simulate">>
    /\ UNCHANGED <<env, stats, safetyVars, executorVars, listenerVars,
                   others, delivered, simulationVars, submitterVars, analyzerVars>>

\* lines 201-228: the simulation is attached; on success the safety check runs
MonitorSimulated(aT, aA, fsOk) ==
    /\ run.pc = "simulate"
    /\ LET simulation == Simulate(run.opp, TenderlyConfigured(env), aT, aA)
           opp == [run.opp EXCEPT !.simulation = simulation]
           r   == CheckOpportunitySafety(opp, env, fsOk)
       IN  /\ stats' = [stats EXCEPT !.opportunitiesSimulated = @ + 1]
           /\ IF ~simulation.success
              THEN /\ run' = Finish([run EXCEPT !.opp = opp])
                   /\ UNCHANGED <<calls, safetyVars>>
              ELSE /\ run' = [run EXCEPT !.pc = "safety", !.opp = opp,
                                         !.safety = SafetyCheckResult(r)]
                   /\ calls' = Append(calls, "checkOpportunitySafety")
                   /\ auditLogs' = auditLogs \o r.pushed
                   /\ auditFile' = auditFile \o r.written
                   /\ UNCHANGED lastCheck
    /\ UNCHANGED <<env, executorVars, listenerVars,
                   others, delivered, simulationVars, submitterVars, analyzerVars>>

\* the fault C1 excludes: a processOpportunity that does not return when the
\* safety check did not pass
MonitorCheckedUngated(sendOk, frac) ==
    /\ run.pc = "safety"
    /\ LET minProfitBPS == ParseInt(OrDefault(env.MIN_PROFIT_BPS, DefaultMinProfitBPS))
           r == Execute(run.opp, executor, sendOk, frac)
       IN  IF LessThan(run.opp.simulation.netProfitBPS, minProfitBPS)
           THEN run' = Finish(run) /\ UNCHANGED <<calls, sentTxs, builtTxs>>
           ELSE IF ExecutionEnabled(env)
           THEN /\ run' = [run EXCEPT !.pc = "execute", !.outcome = r]
                /\ calls' = Append(calls, "execute")
                /\ sentTxs' = sentTxs \o r.sent
                /\ builtTxs' = builtTxs + r.built
           ELSE run' = Finish(run) /\ UNCHANGED <<calls, sentTxs, builtTxs>>
    /\ UNCHANGED <<env, stats, executor, lastExec, safetyVars, listenerVars,
                   others, delivered, simulationVars, submitterVars, analyzerVars>>

\* lines 230-271: the gates after the safety check, then the execute call
MonitorChecked(sendOk, frac) ==
    /\ run.pc = "safety"
    /\ LET minProfitBPS == ParseInt(OrDefault(env.MIN_PROFIT_BPS, DefaultMinProfitBPS))
           r == Execute(run.opp, executor, sendOk, frac)
       IN  IF ~run.safety.passed
           THEN run' = Finish(run) /\ UNCHANGED <<calls, sentTxs, builtTxs>>
           ELSE IF LessThan(run.opp.simulation.netProfitBPS, minProfitBPS)
           THEN run' = Finish(run) /\ UNCHANGED <<calls, sentTxs, builtTxs>>
           ELSE IF ExecutionEnabled(env)
           THEN /\ run' = [run EXCEPT !.pc = "execute", !.outcome = r]
                /\ calls' = Append(calls, "execute")
                /\ sentTxs' = sentTxs \o r.sent
                /\ builtTxs' = builtTxs + r.built
           ELSE run' = Finish(run) /\ UNCHANGED <<calls, sentTxs, builtTxs>>
    /\ UNCHANGED <<env, stats, executor, lastExec, safetyVars, listenerVars,
                   others, delivered, simulationVars, submitterVars, analyzerVars>>

\* the counters written from what this run alone counted, not added to the
\* aggregate: the update a run would make from a value read before its await
MonitorExecutedStale ==
    /\ run.pc = "execute"
    /\ stats' = IF run.outcome.threw THEN stats
                ELSE [stats EXCEPT !.opportunitiesExecuted = run.n,
                                   !.totalProfit = run.opp.simulation.netProfit]
    /\ run' = Finish(run)
    /\ UNCHANGED <<env, calls, safetyVars, executorVars, listenerVars,
                   others, delivered, simulationVars, submitterVars, analyzerVars>>

\* processOpportunity going back to the safety gate when execute reported a failure
MonitorExecutedRetry ==
    /\ run.pc = "execute"
    /\ stats' = IF run.outcome.threw THEN stats
                ELSE [stats EXCEPT !.opportunitiesExecuted = @ + 1,
                                   !.totalProfit = @ + run.opp.simulation.netProfit]
    /\ run' = IF ~run.outcome.threw /\ run.outcome.status = "failed" /\ Len(calls) < 4
              THEN [run EXCEPT !.pc = "safety"]
              ELSE Finish(run)
    /\ UNCHANGED <<env, calls, safetyVars, executorVars, listenerVars,
                   others, delivered, simulationVars, submitterVars, analyzerVars>>

\* lines 271-284: the counters after execute resolved; a rejection is caught
MonitorExecuted ==
    /\ run.pc = "execute"
    /\ stats' = IF run.outcome.threw THEN stats
                ELSE [stats EXCEPT !.opportunitiesExecuted = @ + 1,
                                   !.totalProfit = @ + run.opp.simulation.netProfit]
    /\ run' = Finish(run)
    /\ UNCHANGED <<env, calls, safetyVars, executorVars, listenerVars,
                   others, delivered, simulationVars, submitterVars, analyzerVars>>

(* PolygonArbitrageMonitor.handleIncomingTransaction, lines 141-184, and the
   'tx' handler of start(), lines 122-124, which does not await it: a run
   suspended at an await of processOpportunity stays parked while the event
   loop starts or continues another one *)

\* lines 142-164: the transaction is counted and decoded; detectOpportunities
\* (lines 186-190) returns no opportunity, so the handler returns
MonitorHandleIncomingTransaction(tx) ==
    /\ Len(delivered) < MaxRuns
    /\ stats' = [stats EXCEPT !.txsProcessed = @ + 1]
    /\ delivered' = Append(delivered, Handled(tx, 0, FALSE, "none"))
    /\ UNCHANGED <<env, run, calls, others, safetyVars, executorVars, listenerVars,
                   simulationVars, submitterVars, analyzerVars>>

\* the run in progress reaches an await and the event loop starts a new run
Suspend ==
    /\ run.pc \in {"simulate", "safety", "execute"}
    /\ Len(others) < MaxSuspended
    /\ others' = Append(others, [run |-> run, calls |-> calls])
    /\ run' = IdleRun
    /\ calls' = <<>>
    /\ UNCHANGED <<env, stats, delivered, safetyVars, executorVars, listenerVars,
                   simulationVars, submitterVars, analyzerVars>>

\* the event loop continues the i-th parked run; the current one is parked
Resume(i) ==
    /\ i \in 1..Len(others)
    /\ run' = others[i].run
    /\ calls' = others[i].calls
    /\ others' = [others EXCEPT ![i] = [run |-> run, calls |-> calls]]
    /\ UNCHANGED <<env, stats, delivered, safetyVars, executorVars, listenerVars,
                   simulationVars, submitterVars, analyzerVars>>

(* PolygonCopyTradingBot, lines 490-683 *)

\* detectOpportunities(tx, decoded): the opportunities it returns
DetectOpportunities(tx, decoded) ==
    IF decoded.type # "swap" THEN <<>>
    ELSE IF ~ExtractSwapAmount(decoded) \/ ~ExtractTokenPair(decoded) THEN <<>>
    ELSE IF tx.amountIn < 0 THEN <<>>           \* BigInt(...) throws, caught
    ELSE IF tx.amountIn < MinSwapSize THEN <<>>
    ELSE << Opportunity("cross_dex_arbitrage", tx, <<>>, CopyExpectedProfitBPS, TRUE,
                        tx.amountIn * 2, CopyGasEstimate, 2, NoSimulation) >>

CopyDefaultMinProfitBPS == <<"1", "0">>

\* handleIncomingTransaction(tx), lines 490-533, with detectOpportunities and
\* processOpportunity (lines 609-644) up to the execute call
CopyHandleIncomingTransaction(tx, sendOk, frac) ==
    /\ run.pc \in {"idle", "done"}
    /\ run.n < MaxRuns
    /\ LET decoded == DecodeCalldata(tx)
           opps    == IF decoded.type = "unknown" THEN <<>>
                      ELSE DetectOpportunities(tx, decoded)
           minProfitBPS == ParseInt(OrDefault(env.MIN_PROFIT_BPS, CopyDefaultMinProfitBPS))
           begun   == [pc |-> "done", n |-> run.n + 1, opp |-> NoOpportunity,
                       safety |-> NoSafetyResult, outcome |-> ExecThrew("")]
           executes == /\ Len(opps) > 0
                       /\ ~LessThan(opps[1].expectedProfitBPS, minProfitBPS)
                       /\ ExecutionEnabled(env)
           result  == Execute(opps[1], executor, sendOk, frac)
       IN  /\ delivered' = Append(delivered,
                 Handled(tx, Len(opps), executes,
                         IF ~executes THEN "none"
                         ELSE IF result.threw THEN "threw" ELSE result.status))
           /\ IF decoded.type = "unknown"
              THEN /\ stats' = [stats EXCEPT !.txsProcessed = @ + 1]
                   /\ run' = begun
                   /\ calls' = <<"decodeCalldata">>
                   /\ UNCHANGED <<sentTxs, builtTxs>>
              ELSE IF Len(opps) = 0
              THEN /\ stats' = [stats EXCEPT !.txsProcessed = @ + 1]
                   /\ run' = begun
                   /\ calls' = <<"decodeCalldata", "detectOpportunities">>
                   /\ UNCHANGED <<sentTxs, builtTxs>>
              ELSE IF LessThan(opps[1].expectedProfitBPS, minProfitBPS)
              THEN /\ stats' = [stats EXCEPT !.txsProcessed = @ + 1,
                                             !.opportunitiesFound = @ + Len(opps)]
                   /\ run' = [begun EXCEPT !.opp = opps[1]]
                   /\ calls' = <<"decodeCalldata", "detectOpportunities">>
                   /\ UNCHANGED <<sentTxs, builtTxs>>
              ELSE IF ~ExecutionEnabled(env)
              THEN /\ stats' = [stats EXCEPT !.txsProcessed = @ + 1,
                                             !.opportunitiesFound = @ + Len(opps) + 1]
                   /\ run' = [begun EXCEPT !.opp = opps[1]]
                   /\ calls' = <<"decodeCalldata", "detectOpportunities">>
                   /\ UNCHANGED <<sentTxs, builtTxs>>
              ELSE LET r == Execute(opps[1], executor, sendOk, frac)
                   IN  /\ stats' = [stats EXCEPT !.txsProcessed = @ + 1,
                                                 !.opportunitiesFound = @ + Len(opps) + 1]
                       /\ run' = [begun EXCEPT !.pc = "execute", !.opp = opps[1],
                                               !.outcome = r]
                       /\ calls' = <<"decodeCalldata", "detectOpportunities", "execute">>
                       /\ sentTxs' = sentTxs \o r.sent
                       /\ builtTxs' = builtTxs + r.built
    /\ UNCHANGED <<env, executor, lastExec, safetyVars, listenerVars,
                   others, simulationVars, submitterVars, analyzerVars>>

\* processOpportunity without its try/catch (lines 610, 677-682): a rejection of
\* execute leaves handleIncomingTransaction through its caller
CopyExecutedUncaught ==
    /\ run.pc = "execute"
    /\ stats' =
         IF run.outcome.threw THEN stats
         ELSE IF run.outcome.status \in {"submitted", "included"}
         THEN [stats EXCEPT !.opportunitiesExecuted = @ + 1,
                            !.totalProfit = @ + (run.opp.flashloanAmount
                                                 * run.opp.expectedProfitBPS) \div BPS]
         ELSE [stats EXCEPT !.opportunitiesExecuted = @ + 1]
    /\ run' = IF run.outcome.threw THEN [run EXCEPT !.pc = "rejected"] ELSE Finish(run)
    /\ UNCHANGED <<env, calls, safetyVars, executorVars, listenerVars,
                   others, delivered, simulationVars, submitterVars, analyzerVars>>

\* lines 644-682: the counters after execute resolved; a rejection is caught
CopyExecuted ==
    /\ run.pc = "execute"
    /\ stats' =
         IF run.outcome.threw THEN stats
         ELSE IF run.outcome.status \in {"submitted", "included"}
         THEN [stats EXCEPT !.opportunitiesExecuted = @ + 1,
                            !.totalProfit = @ + (run.opp.flashloanAmount
                                                 * run.opp.expectedProfitBPS) \div BPS]
         ELSE [stats EXCEPT !.opportunitiesExecuted = @ + 1]
    /\ run' = Finish(run)
    /\ UNCHANGED <<env, calls, safetyVars, executorVars, listenerVars,
                   others, delivered, simulationVars, submitterVars, analyzerVars>>


-----------------------------------------------------------------------------
(* PoolAnalyzer: src/src/decoders/calldataDecoder.ts, lines 336-676 *)

\* line 520: the margin added to minProfitBPS for slippage and fees
SlippageBufferBPS == 100

\* line 530
CrossArbitrageGasEstimate == 150000

\* Token with its address (a string, kept as its characters)
TokenAt(addr, sym) == [present |-> TRUE, symbol |-> sym, address |-> addr]

\* PoolState as the analyzer builds it: sqrtPriceX96 is counted in units of
\* 2^95 (0: the field is absent or BigInt(0), both falsy), timestamp is a number
AnalyzedPool(dex, addr, t0, t1, r0, r1, sqrt, ts) ==
    [address |-> addr, dexType |-> dex, token0 |-> t0, token1 |-> t1,
     reserve0 |-> r0, reserve1 |-> r1, sqrtPriceX96 |-> sqrt, timestamp |-> ts]

NoPool == AnalyzedPool("", "", NoToken, NoToken, 0, 0, 0, 0)

\* Map.prototype.set on a Map kept as the sequence of its values in insertion
\* order: an existing key keeps its position and gets the new value
MapSet(cache, pool) ==
    IF \E i \in 1..Len(cache) : cache[i].address = pool.address
    THEN [i \in 1..Len(cache) |->
            IF cache[i].address = pool.address THEN pool ELSE cache[i]]
    ELSE Append(cache, pool)

\* what contract.getReserves() / slot0() resolve or reject with
ChainReply(ok, r0, r1, sqrt, ts) ==
    [ok |-> ok, reserve0 |-> r0, reserve1 |-> r1, sqrtPriceX96 |-> sqrt,
     blockTimestamp |-> ts]

\* getUniswapV2PoolState, lines 347-375: the cache after the call
CacheAfterV2(cache, addr, t0, t1, reply) ==
    IF ~reply.ok THEN cache
    ELSE MapSet(cache, AnalyzedPool("quickswap", addr, t0, t1, reply.reserve0,
                                    reply.reserve1, 0, reply.blockTimestamp))

\* getUniswapV3PoolState, lines 380-411: the cache after the call at time t
CacheAfterV3(cache, addr, t0, t1, reply, t) ==
    IF ~reply.ok THEN cache
    ELSE MapSet(cache, AnalyzedPool("uniswap", addr, t0, t1, 0, 0,
                                    reply.sqrtPriceX96, t))

\* clearOldCache with >= for > at line 667
ClearedInclusive(cache, maxAgeMs, t) ==
    SelectSeq(cache, LAMBDA pool : ~(t - pool.timestamp >= maxAgeMs))

\* clearOldCache(maxAgeMs), lines 664-671: the cache after the call at time t
Cleared(cache, maxAgeMs, t) ==
    SelectSeq(cache, LAMBDA pool : ~(t - pool.timestamp > maxAgeMs))

\* getCachedPool(address), lines 673-675; found FALSE: undefined
Lookup(cache, addr) ==
    IF \E i \in 1..Len(cache) : cache[i].address = addr
    THEN [found |-> TRUE,
          pool |-> cache[CHOOSE i \in 1..Len(cache) : cache[i].address = addr]]
    ELSE [found |-> FALSE, pool |-> NoPool]

(* prices: Decimal values kept as fractions in lowest terms; den = 0 stands
   for Infinity (num > 0) and NaN (num = 0), as Decimal division by zero gives *)

RECURSIVE Gcd(_, _)
Gcd(a, b) == IF b = 0 THEN a ELSE Gcd(b, a % b)

Frac(n, d) ==
    LET g == Gcd(n, d)
    IN  IF g = 0 THEN [num |-> 0, den |-> 0] ELSE [num |-> n \div g, den |-> d \div g]

\* a.comparedTo(b) < 0, for finite a and b
PriceBelow(a, b) == a.num * b.den < b.num * a.den

\* x > n for a number x kept as a fraction and an integer n
FracAbove(x, n) ==
    IF x.den = 0 THEN x.num > 0 ELSE x.num > n * x.den

\* x >= n
FracAtLeast(x, n) ==
    IF x.den = 0 THEN x.num > 0 ELSE x.num >= n * x.den

\* x - n
FracMinus(x, n) ==
    IF x.den = 0 THEN x ELSE [num |-> x.num - n * x.den, den |-> x.den]

\* calculateSpotPrice(pool), lines 452-474
CalculateSpotPrice(pool) ==
    IF pool.sqrtPriceX96 # 0 THEN Frac(pool.sqrtPriceX96 * pool.sqrtPriceX96, 4)
    ELSE IF pool.reserve0 = 0 THEN Frac(0, 1)
    ELSE Frac(pool.reserve1, pool.reserve0)

\* String.prototype.toLowerCase on the characters the addresses use
ToLowerCase(str) ==
    [i \in 1..Len(str) |->
        CASE str[i] = "A" -> "a" [] str[i] = "B" -> "b" [] str[i] = "C" -> "c"
          [] str[i] = "D" -> "d" [] str[i] = "E" -> "e" [] str[i] = "F" -> "f"
          [] OTHER -> str[i]]

\* lines 487-489: the two lower-cased addresses, sorted and joined; kept as the
\* set of the two, which the sorted pair determines and is determined by
PairKey(pool) == {ToLowerCase(pool.token0.address), ToLowerCase(pool.token1.address)}

\* lines 484-495: the keys of pairMap in insertion order
RECURSIVE PairKeys(_)
PairKeys(pools) ==
    IF pools = <<>> THEN <<>>
    ELSE LET front == PairKeys(SubSeq(pools, 1, Len(pools) - 1))
             key   == PairKey(pools[Len(pools)])
         IN  IF \E i \in 1..Len(front) : front[i] = key THEN front
             ELSE Append(front, key)

\* lines 502-507: Array.prototype.sort by price (stable)
RECURSIVE SortByPrice(_)
SortByPrice(list) ==
    IF list = <<>> THEN <<>>
    ELSE LET front == SortByPrice(SubSeq(list, 1, Len(list) - 1))
             last  == list[Len(list)]
             k     == Cardinality({ i \in 1..Len(front) :
                         ~PriceBelow(CalculateSpotPrice(last), CalculateSpotPrice(front[i])) })
         IN  SubSeq(front, 1, k) \o <<last>> \o SubSeq(front, k + 1, Len(front))

\* lines 513-517: profitBPS of the two extreme prices
ProfitBPS(low, high) ==
    Frac((high.num * low.den - low.num * high.den) * BPS, high.den * low.num)

\* lines 498-549 with >= for > at line 520
PairOpportunitiesInclusive(poolList, minProfitBPS) ==
    IF Len(poolList) < 2 THEN <<>>
    ELSE LET priceMap  == SortByPrice(poolList)
             lowPricePool  == priceMap[1]
             highPricePool == priceMap[Len(priceMap)]
             profitBPS == ProfitBPS(CalculateSpotPrice(lowPricePool),
                                    CalculateSpotPrice(highPricePool))
         IN  IF FracAtLeast(profitBPS, minProfitBPS + SlippageBufferBPS)
             THEN << Opportunity("cross_dex_arbitrage", NoTx,
                                 <<lowPricePool, highPricePool>>,
                                 FracMinus(profitBPS, SlippageBufferBPS), FALSE, 0,
                                 CrossArbitrageGasEstimate, 2, NoSimulation) >>
             ELSE <<>>

\* lines 498-549: what one pair of pairMap contributes
PairOpportunities(poolList, minProfitBPS) ==
    IF Len(poolList) < 2 THEN <<>>
    ELSE LET priceMap  == SortByPrice(poolList)
             lowPricePool  == priceMap[1]
             highPricePool == priceMap[Len(priceMap)]
             profitBPS == ProfitBPS(CalculateSpotPrice(lowPricePool),
                                    CalculateSpotPrice(highPricePool))
         IN  IF FracAbove(profitBPS, minProfitBPS + SlippageBufferBPS)
             THEN << Opportunity("cross_dex_arbitrage", NoTx,
                                 <<lowPricePool, highPricePool>>,
                                 FracMinus(profitBPS, SlippageBufferBPS), FALSE, 0,
                                 CrossArbitrageGasEstimate, 2, NoSimulation) >>
             ELSE <<>>

\* detectCrossArbitrage(pools, minProfitBPS), lines 479-555; pools: the values
\* of the Map in insertion order
RECURSIVE OpportunitiesOf(_, _, _)
OpportunitiesOf(keys, pools, minProfitBPS) ==
    IF keys = <<>> THEN <<>>
    ELSE OpportunitiesOf(SubSeq(keys, 1, Len(keys) - 1), pools, minProfitBPS)
         \o PairOpportunities(SelectSeq(pools, LAMBDA p : PairKey(p) = keys[Len(keys)]),
                              minProfitBPS)

DetectCrossArbitrage(pools, minProfitBPS) ==
    OpportunitiesOf(PairKeys(pools), pools, minProfitBPS)

\* the analyzer after construction, lines 338-342
InitPoolAnalyzer ==
    /\ poolCache = <<>>
    /\ now = 0
    /\ lastCacheOp = [op |-> "none", address |-> "", maxAgeMs |-> 0, at |-> 0,
                      before |-> <<>>, fetched |-> FALSE, returned |-> Lookup(<<>>, "")]
    /\ lastDetect = [called |-> FALSE, pools |-> <<>>, minProfitBPS |-> 0,
                     opportunities |-> <<>>]

\* one getUniswapV2PoolState call
GetUniswapV2PoolState(addr, t0, t1, reply) ==
    /\ poolCache' = CacheAfterV2(poolCache, addr, t0, t1, reply)
    /\ lastCacheOp' = [op |-> "set", address |-> addr, maxAgeMs |-> 0, at |-> now,
                       before |-> poolCache, fetched |-> reply.ok,
                       returned |-> Lookup(poolCache', addr)]
    /\ UNCHANGED <<env, now, lastDetect, safetyVars, executorVars, pipelineVars,
                   listenerVars, simulationVars, submitterVars>>

\* one getUniswapV3PoolState call
GetUniswapV3PoolState(addr, t0, t1, reply) ==
    /\ poolCache' = CacheAfterV3(poolCache, addr, t0, t1, reply, now)
    /\ lastCacheOp' = [op |-> "set", address |-> addr, maxAgeMs |-> 0, at |-> now,
                       before |-> poolCache, fetched |-> reply.ok,
                       returned |-> Lookup(poolCache', addr)]
    /\ UNCHANGED <<env, now, lastDetect, safetyVars, executorVars, pipelineVars,
                   listenerVars, simulationVars, submitterVars>>

\* one clearOldCache call
ClearOldCache(maxAgeMs) ==
    /\ poolCache' = Cleared(poolCache, maxAgeMs, now)
    /\ lastCacheOp' = [op |-> "clear", address |-> "", maxAgeMs |-> maxAgeMs, at |-> now,
                       before |-> poolCache, fetched |-> FALSE,
                       returned |-> Lookup(<<>>, "")]
    /\ UNCHANGED <<env, now, lastDetect, safetyVars, executorVars, pipelineVars,
                   listenerVars, simulationVars, submitterVars>>

\* one getCachedPool call
GetCachedPool(addr) ==
    /\ lastCacheOp' = [op |-> "get", address |-> addr, maxAgeMs |-> 0, at |-> now,
                       before |-> poolCache, fetched |-> FALSE,
                       returned |-> Lookup(poolCache, addr)]
    /\ UNCHANGED <<env, poolCache, now, lastDetect, safetyVars, executorVars,
                   pipelineVars, listenerVars, simulationVars, submitterVars>>

\* time passes
Tick ==
    /\ now < MaxNow
    /\ now' = now + 1
    /\ UNCHANGED <<env, poolCache, lastCacheOp, lastDetect, safetyVars, executorVars,
                   pipelineVars, listenerVars, simulationVars, submitterVars>>

\* one detectCrossArbitrage call of a client of the analyzer
DetectCall(pools, minProfitBPS) ==
    /\ lastDetect' = [called |-> TRUE, pools |-> pools, minProfitBPS |-> minProfitBPS,
                      opportunities |-> DetectCrossArbitrage(pools, minProfitBPS)]
    /\ UNCHANGED <<env, poolCache, now, lastCacheOp, safetyVars, executorVars,
                   pipelineVars, listenerVars, simulationVars, submitterVars>>

-----------------------------------------------------------------------------
(* TransactionListener: src/src/listeners/transactionListener.ts *)

MaxReconnectAttempts == 5

ReconnectDelay == 1000

RECURSIVE Pow2(_)
Pow2(n) == IF n <= 0 THEN 1 ELSE 2 * Pow2(n - 1)

Sources == {"bloxroute", "eden", "manifold"}

\* new TransactionListener(source, apiKey); ws: what this.ws refers to
\* ("undefined", the "current" socket, or a "stale" closed one); sock: the state
\* of the socket whose events are still to come; timer: the delay of the pending
\* setTimeout, 0 when none is pending; stopped: stop() has been called;
\* reopened: a WebSocket has been created after stop() was called
InitListener ==
    /\ listener \in [source : Sources \cup {"other"}, ws : {"undefined"}, sock : {"none"},
                     reconnectAttempts : {0}, timer : {0}, stopped : {FALSE},
                     reopened : {FALSE}]
    /\ scheduled = <<>>
    /\ emitted = {}
    /\ txDelivered = 0
    /\ startOutcome = "not called"
    /\ gaveUp = FALSE

\* the fault C9 excludes: a limit that is compared with > and lets a sixth
\* reconnect through
AttemptReconnectOffByOne(l) ==
    IF l.reconnectAttempts > 5
    THEN [l |-> l, delays |-> <<>>, exhausted |-> TRUE]
    ELSE [l |-> [l EXCEPT !.reconnectAttempts = @ + 1,
                          !.timer = 1000 * Pow2(l.reconnectAttempts)],
          delays |-> <<1000 * Pow2(l.reconnectAttempts)>>, exhausted |-> FALSE]

\* attemptReconnect(): the listener after it
AttemptReconnect(l) ==
    IF l.reconnectAttempts >= MaxReconnectAttempts
    THEN [l |-> l, delays |-> <<>>, exhausted |-> TRUE]
    ELSE LET delay == ReconnectDelay * Pow2(l.reconnectAttempts + 1 - 1)
         IN  [l |-> [l EXCEPT !.reconnectAttempts = @ + 1, !.timer = delay],
              delays |-> <<delay>>, exhausted |-> FALSE]

\* the body of start() after getStreamUrl(): new WebSocket(url) returns (ctorOk)
\* and the handlers are registered, or it throws and the catch block runs
Connect(l, ctorOk) ==
    IF ctorOk
    THEN [l |-> [l EXCEPT !.ws = "current", !.sock = "connecting",
                          !.reopened = (@ \/ l.stopped)],
          delays |-> <<>>, exhausted |-> FALSE]
    ELSE AttemptReconnect(l)

\* the orchestrator's await this.txListener.start() (index.ts line 119);
\* getStreamUrl() throws for a source that is none of the three
ListenerStart(ctorOk) ==
    /\ startOutcome = "not called"
    /\ IF listener.source \notin Sources
       THEN /\ startOutcome' = "rejected"
            /\ UNCHANGED <<listener, scheduled, gaveUp>>
       ELSE LET c == Connect(listener, ctorOk)
            IN  /\ startOutcome' = "resolved"
                /\ listener' = c.l
                /\ scheduled' = scheduled \o c.delays
                /\ gaveUp' = (gaveUp \/ c.exhausted)
    /\ UNCHANGED <<env, emitted, txDelivered, safetyVars, executorVars, pipelineVars, simulationVars, submitterVars, analyzerVars>>

\* the 'open' handler without the reset of line 39
SocketOpenKeepsCount ==
    /\ listener.sock = "connecting"
    /\ listener' = [listener EXCEPT !.sock = "open"]
    /\ scheduled' = <<>>
    /\ UNCHANGED <<env, emitted, txDelivered, startOutcome, gaveUp,
                   safetyVars, executorVars, pipelineVars, simulationVars, submitterVars, analyzerVars>>

\* the 'open' handler, lines 37-43
SocketOpen ==
    /\ listener.sock = "connecting"
    /\ listener' = [listener EXCEPT !.sock = "open", !.reconnectAttempts = 0]
    /\ scheduled' = <<>>
    /\ UNCHANGED <<env, emitted, txDelivered, startOutcome, gaveUp,
                   safetyVars, executorVars, pipelineVars, simulationVars, submitterVars, analyzerVars>>

\* the 'close' handler, lines 53-56
SocketClose ==
    /\ listener.sock \in {"connecting", "open", "closing"}
    /\ LET closed == [listener EXCEPT !.sock = "none",
                                      !.ws = IF @ = "current" THEN "stale" ELSE @]
           c == AttemptReconnect(closed)
       IN  /\ listener' = c.l
           /\ scheduled' = scheduled \o c.delays
           /\ gaveUp' = (gaveUp \/ c.exhausted)
    /\ UNCHANGED <<env, emitted, txDelivered, startOutcome,
                   safetyVars, executorVars, pipelineVars, simulationVars, submitterVars, analyzerVars>>

\* the setTimeout callback of attemptReconnect, lines 240-242: this.start()
ReconnectTimer(ctorOk) ==
    /\ listener.timer > 0
    /\ LET c == Connect([listener EXCEPT !.timer = 0], ctorOk)
       IN  /\ listener' = c.l
           /\ scheduled' = scheduled \o c.delays
           /\ gaveUp' = (gaveUp \/ c.exhausted)
    /\ UNCHANGED <<env, emitted, txDelivered, startOutcome,
                   safetyVars, executorVars, pipelineVars, simulationVars, submitterVars, analyzerVars>>

\* stop(), lines 245-250: close() on the socket this.ws refers to, if any; a
\* socket that is already closed stays so
ListenerStop ==
    /\ startOutcome = "resolved"
    /\ listener' = [listener EXCEPT
                       !.ws = "undefined",
                       !.sock = IF listener.ws = "current" THEN "closing" ELSE @,
                       !.stopped = TRUE]
    /\ UNCHANGED <<env, scheduled, emitted, txDelivered, startOutcome, gaveUp,
                   safetyVars, executorVars, pipelineVars, simulationVars, submitterVars, analyzerVars>>

\* a stream message: the layout of its JSON ("garbage": not JSON) and whether
\* hash, from and data are all there
Messages == [layout : Sources \cup {"garbage"}, complete : BOOLEAN]

\* parseTx(message) # null
ParseTx(source, msg) == msg.layout = source /\ msg.complete

\* handleMessage(data), lines 132-144
HandleMessage(msg) ==
    /\ listener.sock = "open"
    /\ txDelivered < MaxMsgs
    /\ IF ParseTx(listener.source, msg)
       THEN /\ emitted' = emitted \cup {"tx"}
            /\ txDelivered' = txDelivered + 1
       ELSE UNCHANGED <<emitted, txDelivered>>
    /\ UNCHANGED <<env, listener, scheduled, startOutcome, gaveUp,
                   safetyVars, executorVars, pipelineVars, simulationVars, submitterVars, analyzerVars>>

-----------------------------------------------------------------------------
(* The specifications *)

NoEnv ==
    [MIN_PROFIT_BPS |-> Unset, REVERT_ON_DEVIATION_SLIPPAGE_BPS |-> Unset,
     EXECUTOR_ADDRESS |-> Unset, ENABLE_EXECUTION |-> Unset,
     EXECUTOR_PRIVATE_KEY |-> Unset, TENDERLY_API_KEY |-> Unset,
     TENDERLY_PROJECT |-> Unset, TENDERLY_USER |-> Unset,
     BUNDLE_RELAY_TYPE |-> Unset, CUSTOM_RELAY_URL |-> Unset]

Tok == Token("TOK")

Balanced == PoolState("0xpoolA", Tok, Tok, 1000, 2000)

Extreme == PoolState("0xpoolB", Tok, Tok, 1000, 100001)

Tokenless == PoolState("0xpoolC", NoToken, NoToken, 1000, 2000)

RandomFractions == {<<>>, <<"a", "3", "f">>}

(* SafetyChecker alone *)

SafetyEnvs ==
    { [NoEnv EXCEPT !.MIN_PROFIT_BPS = m, !.REVERT_ON_DEVIATION_SLIPPAGE_BPS = r] :
        m \in {Unset, EnvStr(<<"1", "0", "0">>)},
        r \in {Unset, EnvStr(<<"5", "0", "0">>), EnvStr(<<"6", "0", "0">>)} }

SafetySimulations ==
    { NoSimulation,
      FailedSimulation("Unknown revert"),
      SimulationResult(TRUE, 1009, 9, 90, 1, 0, 8, 80, <<>>, ""),
      SimulationResult(TRUE, 1020, 20, 200, 0, 0, 20, 200, <<201>>, "") }

SafetyTxs ==
    { NoTx,
      PendingTx("0xh1", TRUE, <<"0", "x", "a">>, 20002, "0x38ed1739", 0),
      PendingTx("0xh2", FALSE, <<>>, 202, "0x38ed1739", 0) }

SafetyPools == { <<Balanced>>, <<Balanced, Extreme>>, <<Tokenless>> }

SafetyOpportunities ==
    { Opportunity("cross_dex_arbitrage", tx, pools, 100, FALSE, 0, 150000, 2, sim) :
        tx \in SafetyTxs, pools \in SafetyPools, sim \in SafetySimulations }

InitSafety ==
    /\ env \in SafetyEnvs
    /\ InitSafetyChecker
    /\ executor = InitializedExecutor(env)
    /\ InitExecutorState
    /\ InitPipeline
    /\ InitSimulationEngine
    /\ InitBundleSubmitter
    /\ InitPoolAnalyzer
    /\ InitListener
    /\ listener.source = "bloxroute"

NextSafety ==
    \E opp \in SafetyOpportunities, fsOk \in BOOLEAN : SafetyCheck(opp, fsOk)

SpecSafety == InitSafety /\ [][NextSafety]_vars


(* ArbitrageExecutor alone *)

PrivateKey == EnvStr(<<"0", "x", "k", "e", "y">>)

Executors ==
    { ArbitrageExecutor(p, d, k) :
        p \in {"aave", "balancer", "custom"}, d \in BOOLEAN, k \in {Unset, PrivateKey} }

ExecutorSimulations ==
    { NoSimulation,
      SimulationResult(TRUE, 1006, 6, 60, 1, 0, 5, 49, <<>>, ""),
      SimulationResult(TRUE, 1006, 6, 60, 1, 0, 5, 50, <<>>, "") }

ExecutorOpportunities ==
    { Opportunity(ty, NoTx, pools, 100, ty = "twap_arbitrage", 0, 150000, 3, sim) :
        ty \in OpportunityType, pools \in {<<>>, <<Balanced, Extreme>>},
        sim \in ExecutorSimulations }
    \cup
    { Opportunity("twap_arbitrage", NoTx, <<Balanced>>, 100, FALSE, 0, 150000, 3, sim) :
        sim \in ExecutorSimulations }

InitExecutor ==
    /\ env = NoEnv
    /\ InitSafetyChecker
    /\ executor \in Executors
    /\ InitExecutorState
    /\ InitPipeline
    /\ InitSimulationEngine
    /\ InitBundleSubmitter
    /\ InitPoolAnalyzer
    /\ InitListener
    /\ listener.source = "bloxroute"

NextExecutor ==
    \E opp \in ExecutorOpportunities, sendOk \in BOOLEAN, frac \in RandomFractions :
        ExecuteCall(opp, sendOk, frac)

SpecExecutor == InitExecutor /\ [][NextExecutor]_vars


(* PolygonArbitrageMonitor.processOpportunity *)

Configured == EnvStr(<<"s", "e", "t">>)

MonitorEnvs ==
    { [NoEnv EXCEPT !.ENABLE_EXECUTION = x, !.EXECUTOR_PRIVATE_KEY = k,
                    !.REVERT_ON_DEVIATION_SLIPPAGE_BPS = r,
                    !.TENDERLY_API_KEY = t, !.TENDERLY_PROJECT = t, !.TENDERLY_USER = t] :
        x \in {Unset, EnvStr(True)}, k \in {Unset, PrivateKey},
        r \in {Unset, EnvStr(<<"5", "0", "0">>)}, t \in {Unset, Configured} }

Drained == PoolState("0xpoolD", Tok, Tok, 0, 0)

MonitorOpportunities ==
    { Opportunity("cross_dex_arbitrage", NoTx, pools, 100, FALSE, 0, 150000, 2, NoSimulation) :
        pools \in {<<>>, <<Balanced, Balanced>>, <<Balanced, Extreme>>, <<Drained, Balanced>>} }

SimulatorAnswers ==
    { Answer("error", 0, 0), Answer("reverted", 0, 0),
      Answer("ok", 1010, 1), Answer("ok", 1005, 1),
      Answer("ok", 900, 1), Answer("ok", 1005, 20) }

InitMonitor ==
    /\ env \in MonitorEnvs
    /\ InitSafetyChecker
    /\ executor = InitializedExecutor(env)
    /\ InitExecutorState
    /\ InitPipeline
    /\ InitSimulationEngine
    /\ InitBundleSubmitter
    /\ InitPoolAnalyzer
    /\ InitListener
    /\ listener.source = "bloxroute"

NextMonitor ==
    \/ \E opp \in MonitorOpportunities : MonitorProcessOpportunity(opp)
    \/ \E aT \in SimulatorAnswers, aA \in SimulatorAnswers, fsOk \in BOOLEAN :
          MonitorSimulated(aT, aA, fsOk)
    \/ \E sendOk \in BOOLEAN, frac \in RandomFractions : MonitorChecked(sendOk, frac)
    \/ MonitorExecuted

SpecMonitor == InitMonitor /\ [][NextMonitor]_vars

(* PolygonArbitrageMonitor: pipeline runs interleaved at their awaits *)

ConcurrentEnv ==
    [NoEnv EXCEPT !.ENABLE_EXECUTION = EnvStr(True), !.EXECUTOR_PRIVATE_KEY = PrivateKey]

ConcurrentOpportunity ==
    Opportunity("cross_dex_arbitrage", NoTx, <<Balanced, Balanced>>, 100, FALSE, 0,
                150000, 2, NoSimulation)

ConcurrentAnswers == { Answer("error", 0, 0), Answer("ok", 1010, 1), Answer("ok", 1020, 1) }

ConcurrentTx == PendingTx("0xh", TRUE, <<"0", "x", "a">>, 458, "0x1f00ca16", MinSwapSize)

InitConcurrent ==
    /\ env = ConcurrentEnv
    /\ InitSafetyChecker
    /\ executor = InitializedExecutor(env)
    /\ InitExecutorState
    /\ InitPipeline
    /\ InitSimulationEngine
    /\ InitBundleSubmitter
    /\ InitPoolAnalyzer
    /\ InitListener
    /\ listener.source = "bloxroute"

NextConcurrent ==
    \/ MonitorHandleIncomingTransaction(ConcurrentTx)
    \/ MonitorProcessOpportunity(ConcurrentOpportunity)
    \/ \E aA \in ConcurrentAnswers : MonitorSimulated(Answer("error", 0, 0), aA, TRUE)
    \/ \E sendOk \in BOOLEAN : MonitorChecked(sendOk, <<>>)
    \/ MonitorExecuted
    \/ Suspend
    \/ \E i \in 1..MaxSuspended : Resume(i)

SpecConcurrent == InitConcurrent /\ [][NextConcurrent]_vars

(* PolygonCopyTradingBot.handleIncomingTransaction *)

CopyEnvs ==
    { [NoEnv EXCEPT !.ENABLE_EXECUTION = x, !.EXECUTOR_PRIVATE_KEY = k,
                    !.MIN_PROFIT_BPS = m] :
        x \in {Unset, EnvStr(True)}, k \in {Unset, PrivateKey},
        m \in {Unset, EnvStr(<<"5", "0">>), EnvStr(<<"5", "1">>)} }

CopyTxs ==
    { PendingTx("0xh", TRUE, <<"0", "x", "a">>, len, sel, amt) :
        len \in {8, 458},
        sel \in {"0x1f00ca16", "0xc04b8d59", "0x38ed1739", "0x5b0d5984", "0xdeadbeef"},
        amt \in {MinSwapSize - 1, MinSwapSize, 3 * MinSwapSize} }

InitCopyBot ==
    /\ env \in CopyEnvs
    /\ InitSafetyChecker
    /\ executor = InitializedExecutor(env)
    /\ InitExecutorState
    /\ InitPipeline
    /\ InitSimulationEngine
    /\ InitBundleSubmitter
    /\ InitPoolAnalyzer
    /\ InitListener
    /\ listener.source = "bloxroute"

NextCopyBot ==
    \/ \E tx \in CopyTxs, sendOk \in BOOLEAN, frac \in RandomFractions :
          CopyHandleIncomingTransaction(tx, sendOk, frac)
    \/ CopyExecuted

SpecCopyBot == InitCopyBot /\ [][NextCopyBot]_vars

(* TransactionListener and the stream it is connected to *)

InitStream ==
    /\ env = NoEnv
    /\ InitSafetyChecker
    /\ executor = InitializedExecutor(env)
    /\ InitExecutorState
    /\ InitPipeline
    /\ InitSimulationEngine
    /\ InitBundleSubmitter
    /\ InitPoolAnalyzer
    /\ InitListener

NextListener ==
    \/ \E ctorOk \in BOOLEAN : ListenerStart(ctorOk)
    \/ SocketOpen
    \/ SocketClose
    \/ \E ctorOk \in BOOLEAN : ReconnectTimer(ctorOk)
    \/ ListenerStop
    \/ \E msg \in Messages : HandleMessage(msg)

SpecListener == InitStream /\ [][NextListener]_vars


(* SimulationEngine alone *)

SimulationEnvs ==
    { [NoEnv EXCEPT !.TENDERLY_API_KEY = t, !.TENDERLY_PROJECT = t, !.TENDERLY_USER = t] :
        t \in {Unset, Configured} }

SimulationOpportunities ==
    MonitorOpportunities
    \cup { Opportunity("twap_arbitrage", NoTx, <<Balanced>>, 100, flReq, flAmt, 150000, 2,
                       NoSimulation) :
              flReq \in BOOLEAN, flAmt \in {5000, 5999} }

InitSimulation ==
    /\ env \in SimulationEnvs
    /\ InitSafetyChecker
    /\ executor = InitializedExecutor(env)
    /\ InitExecutorState
    /\ InitPipeline
    /\ InitSimulationEngine
    /\ InitBundleSubmitter
    /\ InitPoolAnalyzer
    /\ InitListener
    /\ listener.source = "bloxroute"

NextSimulation ==
    \E opp \in SimulationOpportunities, aT \in SimulatorAnswers, aA \in SimulatorAnswers :
        SimulateCall(opp, aT, aA)

SpecSimulation == InitSimulation /\ [][NextSimulation]_vars

(* filterProfitable and the profitability check of the SafetyChecker *)

Unsimulated ==
    Opportunity("cross_dex_arbitrage", NoTx, <<Balanced, Balanced>>, 100, FALSE, 0,
                150000, 2, NoSimulation)

FilterOpportunities ==
    { Unsimulated,
      [Unsimulated EXCEPT !.pools = <<>>],
      [Unsimulated EXCEPT !.simulation =
          SimulationResult(TRUE, 1010, 10, 100, 1, 0, 9, 90, <<>>, "")],
      [Unsimulated EXCEPT !.pools = <<>>, !.simulation =
          SimulationResult(TRUE, 1010, 10, 100, 1, 0, 9, 90, <<>>, "")],
      [Unsimulated EXCEPT !.simulation =
          SimulationResult(TRUE, 1020, 20, 200, 0, 0, 20, 200, <<201>>, "")],
      [Unsimulated EXCEPT !.simulation = FailedSimulation("Unknown revert")] }

FilterLists ==
    {<<>>} \cup { <<o>> : o \in FilterOpportunities }
           \cup { <<o1, o2>> : o1 \in {Unsimulated, [Unsimulated EXCEPT !.pools = <<>>]},
                                o2 \in FilterOpportunities }
           \cup { <<o1, Unsimulated>> : o1 \in FilterOpportunities }

FilterThresholds == {0, 100}

FilterChecked ==
    { [Unsimulated EXCEPT !.triggeringTx = tx] : tx \in SafetyTxs }

InitFilter ==
    /\ env \in { e \in SafetyEnvs : ~e.MIN_PROFIT_BPS.set
                                    /\ e.REVERT_ON_DEVIATION_SLIPPAGE_BPS.val # <<"6", "0", "0">> }
    /\ InitSafetyChecker
    /\ executor = InitializedExecutor(env)
    /\ InitExecutorState
    /\ InitPipeline
    /\ InitSimulationEngine
    /\ InitBundleSubmitter
    /\ InitPoolAnalyzer
    /\ InitListener
    /\ listener.source = "bloxroute"

NextFilter ==
    \/ \E opps \in FilterLists, minBPS \in FilterThresholds, maxGas \in FilterThresholds :
          FilterCall(opps, minBPS, maxGas)
    \/ \E opp \in FilterChecked : SafetyCheck(opp, TRUE)

SpecFilter == InitFilter /\ [][NextFilter]_vars

(* The four checks of the SafetyChecker, each over the inputs that decide it *)

ChecksEnvs ==
    { [NoEnv EXCEPT !.MIN_PROFIT_BPS = m, !.EXECUTOR_ADDRESS = a,
                    !.REVERT_ON_DEVIATION_SLIPPAGE_BPS = EnvStr(<<"5", "0", "0">>)] :
        m \in {Unset, EnvStr(<<"1", "0", "0">>), EnvStr(<<"x">>)},
        a \in {Unset, EnvStr(<<"0", "x", "a">>)} }

AtMinimum == SimulationResult(TRUE, 1009, 9, 90, 1, 0, 8, 80, <<>>, "")

ProfitSimulations ==
    { NoSimulation,
      FailedSimulation("Unknown revert"),
      SimulationResult(TRUE, 1009, 9, 90, 2, 0, 7, 79, <<>>, ""),
      SimulationResult(TRUE, 1011, 11, 110, 1, 0, 10, 100, <<>>, ""),
      SimulationResult(TRUE, 1020, 20, 200, 1, 19, 19, 190, <<>>, ""),
      SimulationResult(TRUE, 1020, 20, 200, 1, 18, 19, 190, <<>>, ""),
      SimulationResult(TRUE, 1009, 9, 90, 2, 1, 7, 79, <<>>, "") }

DeviatingSimulations ==
    { SimulationResult(TRUE, 1009, 9, 90, 1, 0, 8, 80, devs, "") :
        devs \in { <<200>>, <<201>>, <<0, 201>> } }

TriggeringTxs ==
    { PendingTx("0xh1", TRUE, <<"0", "x", "a">>, 20000, "0x38ed1739", 0),
      PendingTx("0xh2", TRUE, <<"0", "x", "a">>, 20002, "0x38ed1739", 0),
      PendingTx("0xh3", TRUE, <<"0", "x", "b">>, 20002, "0x38ed1739", 0),
      PendingTx("0xh4", TRUE, <<"0", "x", "b">>, 20004, "0x38ed1739", 0),
      PendingTx("0xh5", TRUE, <<"0", "x", "b">>, 10, "0x38ed1739", 0),
      PendingTx("0xh6", FALSE, <<>>, 10, "0x38ed1739", 0) }

RatioPools ==
    { << PoolState("0xpoolR", Tok, Tok, r[1], r[2]) >> :
        r \in { <<100000, 1000>>, <<100001, 1000>>, <<1000, 100000>>, <<1000, 100001>>,
                <<0, 5>>, <<5, 0>> } }
    \cup { <<Balanced, Extreme>>, <<Balanced, Balanced>> }

CheckedOpportunities ==
    { Opportunity("cross_dex_arbitrage", NoTx, <<Balanced>>, 100, FALSE, 0, 150000, 2, sim) :
        sim \in {AtMinimum} \cup ProfitSimulations \cup DeviatingSimulations }
    \cup { Opportunity("cross_dex_arbitrage", tx, <<Balanced>>, 100, FALSE, 0, 150000, 2,
                       AtMinimum) : tx \in TriggeringTxs }
    \cup { Opportunity("cross_dex_arbitrage", NoTx, pools, 100, FALSE, 0, 150000, 2,
                       AtMinimum) : pools \in RatioPools }

InitChecks ==
    /\ env \in ChecksEnvs
    /\ InitSafetyChecker
    /\ executor = InitializedExecutor(env)
    /\ InitExecutorState
    /\ InitPipeline
    /\ InitSimulationEngine
    /\ InitBundleSubmitter
    /\ InitPoolAnalyzer
    /\ InitListener
    /\ listener.source = "bloxroute"

NextChecks ==
    \E opp \in CheckedOpportunities : SafetyCheck(opp, TRUE)

SpecChecks == InitChecks /\ [][NextChecks]_vars

(* BundleSubmitter alone *)

CustomRelay == <<"c", "u", "s", "t", "o", "m">>

SubmitterEnvs ==
    { [NoEnv EXCEPT !.BUNDLE_RELAY_TYPE = t, !.CUSTOM_RELAY_URL = u] :
        t \in {Unset, EnvStr(EdenRelay), EnvStr(CustomRelay)},
        u \in {Unset, EnvStr(<<"h", "t", "t", "p">>)} }

RelayReplies ==
    { RelayReply("network", FALSE, <<>>, <<>>, <<>>, <<>>),
      RelayReply("timeout", FALSE, <<>>, <<>>, <<>>, <<>>),
      RelayReply("reply", FALSE, <<>>, <<>>, <<>>, <<>>) }
    \cup { RelayReply("reply", TRUE, error, result, hashes[1], hashes[2]) :
             error \in {<<>>, <<"bundle rejected">>},
             result \in {<<>>, <<"0xb1">>},
             hashes \in {<< <<>>, <<>> >>, << <<"0xb2">>, <<>> >>, << <<>>, <<"0xb3">> >>} }

InitSubmitter ==
    /\ env \in SubmitterEnvs
    /\ InitSafetyChecker
    /\ executor = InitializedExecutor(env)
    /\ InitExecutorState
    /\ InitPipeline
    /\ InitSimulationEngine
    /\ InitBundleSubmitter
    /\ InitPoolAnalyzer
    /\ InitListener
    /\ listener.source = "bloxroute"

NextSubmitter ==
    \E txsOk \in BOOLEAN, reply \in RelayReplies : SubmitCall(txsOk, reply)

SpecSubmitter == InitSubmitter /\ [][NextSubmitter]_vars

(* The pool cache of the PoolAnalyzer *)

TokenA == TokenAt(<<"0", "x", "A", "a">>, "WMATIC")

TokenB == TokenAt(<<"0", "x", "b", "b">>, "USDC")

CacheAddresses == {"0xpool1", "0xpool2"}

CacheReplies ==
    { ChainReply(FALSE, 0, 0, 0, 0) }
    \cup { ChainReply(TRUE, 1000, r1, 3, ts) : r1 \in {1600, 2000}, ts \in {0, 2} }

MaxAges == {0, 1}

InitCache ==
    /\ env = NoEnv
    /\ InitSafetyChecker
    /\ executor = InitializedExecutor(env)
    /\ InitExecutorState
    /\ InitPipeline
    /\ InitSimulationEngine
    /\ InitBundleSubmitter
    /\ InitPoolAnalyzer
    /\ InitListener
    /\ listener.source = "bloxroute"

NextCache ==
    \/ \E addr \in CacheAddresses, reply \in CacheReplies :
          GetUniswapV2PoolState(addr, TokenA, TokenB, reply)
    \/ \E addr \in CacheAddresses, reply \in CacheReplies :
          GetUniswapV3PoolState(addr, TokenA, TokenB, reply)
    \/ \E maxAgeMs \in MaxAges : ClearOldCache(maxAgeMs)
    \/ \E addr \in CacheAddresses \cup {"0xpool3"} : GetCachedPool(addr)
    \/ Tick

SpecCache == InitCache /\ [][NextCache]_vars

(* detectCrossArbitrage over small sets of cached pools *)

\* the token of a second pair
TokenC == TokenAt(<<"0", "x", "c", "c">>, "WETH")

\* the tokens of the first pair as another venue lists them: token0 and token1
\* exchanged, the addresses in another case
TokenAUpper == TokenAt(<<"0", "x", "A", "A">>, "WMATIC")

TokenBUpper == TokenAt(<<"0", "x", "B", "b">>, "USDC")

\* the venues: two V2 pools of the pair at prices 2 and 1.6, a V2 pool listing
\* the pair the other way round at price 4, a V3 pool at price 4, the only pool
\* of a second pair, and a V2 pool without reserves
DetectVenues ==
    { AnalyzedPool("quickswap", "0xpool1", TokenA, TokenB, 1000, 2000, 0, 0),
      AnalyzedPool("sushiswap", "0xpool2", TokenA, TokenB, 1000, 1600, 0, 0),
      AnalyzedPool("quickswap", "0xpool3", TokenBUpper, TokenAUpper, 1000, 4000, 0, 0),
      AnalyzedPool("uniswap", "0xpool4", TokenA, TokenB, 0, 0, 4, 1),
      AnalyzedPool("quickswap", "0xpool5", TokenA, TokenC, 1000, 9000, 0, 0),
      AnalyzedPool("sushiswap", "0xpool6", TokenA, TokenB, 0, 0, 0, 0) }

\* the values of a Map of at most three of the venues, in any insertion order
DetectPools ==
    { pools \in UNION { [1..n -> DetectVenues] : n \in 0..3 } :
        \A i \in 1..Len(pools), j \in 1..Len(pools) : i # j => pools[i] # pools[j] }

DetectMinimums == {-200, 80, 2399, 2400}

InitDetect == InitCache

NextDetect ==
    \E pools \in DetectPools, minProfitBPS \in DetectMinimums :
        DetectCall(pools, minProfitBPS)

SpecDetect == InitDetect /\ [][NextDetect]_vars


-----------------------------------------------------------------------------
(* Claims about the SafetyChecker, checked under SpecSafety *)

Range(seq) == {seq[i] : i \in 1..Len(seq)}

\* the deviation-guard threshold is missing or above 500 BPS
GuardMisconfigured(e) ==
    \/ ~Truthy(e.REVERT_ON_DEVIATION_SLIPPAGE_BPS)
    \/ GreaterThan(ParseInt(e.REVERT_ON_DEVIATION_SLIPPAGE_BPS.val), MaxRevertThresholdBPS)

\* C3: when the deviation-guard threshold is not configured or is above 500 BPS,
\* checkOpportunitySafety returns passed = false and its failures list holds the
\* deviation-guard failure, whatever the other checks say; a threshold of
\* exactly 500 causes no such failure.
C3_DeviationGuardFails ==
    (lastCheck.n > 0 /\ ~lastCheck.result.threw) =>
        /\ GuardMisconfigured(env) =>
              /\ ~lastCheck.result.passed
              /\ "Revert-on-deviation safety check failed" \in Range(lastCheck.result.failures)
        /\ ~GuardMisconfigured(env) =>
              "Revert-on-deviation safety check failed" \notin Range(lastCheck.result.failures)

\* the opportunity with every pool given its two tokens: the same opportunity
\* for every check, but one whose audit entry can be built
WithTokens(opp) ==
    [opp EXCEPT !.pools = [i \in 1..Len(opp.pools) |->
                              [opp.pools[i] EXCEPT !.token0 = Tok, !.token1 = Tok]]]

\* C4: the result of checkOpportunitySafety satisfies
\* passed = (failures is empty) AND checks.simulationProfitable, and whether the
\* audit entry could be created (checks.auditLogCreated) does not change passed.
C4_PassedFormula ==
    lastCheck.n > 0 =>
        /\ lastCheck.result.passed =
              (Len(lastCheck.result.failures) = 0
               /\ lastCheck.result.checks.simulationProfitable)
        /\ lastCheck.result.passed =>
              /\ lastCheck.result.failures = <<>>
              /\ lastCheck.result.checks.simulationProfitable
        /\ lastCheck.result.passed =
              CheckOpportunitySafety(WithTokens(lastCheck.opp), env, TRUE).passed

\* C4's case: a check that passed although its audit entry could not be created
C4_Witness ==
    /\ lastCheck.n > 0
    /\ lastCheck.result.passed
    /\ ~lastCheck.result.checks.auditLogCreated

\* some check of the battery failed
SomeCheckFailed(checks) ==
    \/ ~checks.simulationProfitable
    \/ ~checks.noNegativeExternalities
    \/ ~checks.noFrontrunning
    \/ ~checks.revertOnDeviation

\* C5: every invocation of checkOpportunitySafety, whatever the outcome of the
\* checks (an error raised by a check included), appends exactly one AuditLog
\* entry to the audit trail, with severity 'warning' if at least one check failed
\* and 'info' otherwise.
C5_OneAuditEntryPerCheck ==
    lastCheck.n > 0 =>
        /\ Len(auditLogs) = lastCheck.logsBefore + 1
        /\ auditLogs[Len(auditLogs)].opportunityType = lastCheck.opp.type
        /\ auditLogs[Len(auditLogs)].severity =
              IF SomeCheckFailed(lastCheck.result.checks) THEN "warning" ELSE "info"


-----------------------------------------------------------------------------
(* Claims about the ArbitrageExecutor, checked under SpecExecutor *)

\* C6: in live mode execute never lets an exception escape to its caller: for
\* every opportunity and executor configuration (no wallet, an unsupported type
\* and a send error included) it returns an ExecutionResult, with status 'failed'
\* and the error captured when anything went wrong.
C6_ExecuteNeverThrows ==
    (lastExec.n > 0 /\ ~executor.dryRunMode) =>
        /\ ~lastExec.outcome.threw
        /\ lastExec.outcome.status \in {"submitted", "failed"}
        /\ lastExec.outcome.status = "failed" => lastExec.outcome.error # ""

\* C7: in live mode execute hands a transaction to wallet.sendTransaction only
\* if the opportunity carries a simulation with netProfitBPS >= 50; when the
\* simulation is missing or netProfitBPS < 50, nothing is built or sent and the
\* result has status 'failed'.
C7_SendOnlyIfStillProfitable ==
    (lastExec.n > 0 /\ ~executor.dryRunMode) =>
        /\ Len(sentTxs) > lastExec.sentBefore =>
              /\ lastExec.opp.simulation.present
              /\ lastExec.opp.simulation.netProfitBPS >= MinExecutionProfitBPS
        /\ (~lastExec.opp.simulation.present
            \/ lastExec.opp.simulation.netProfitBPS < MinExecutionProfitBPS) =>
              /\ builtTxs = lastExec.builtBefore
              /\ Len(sentTxs) = lastExec.sentBefore
              /\ ~lastExec.outcome.threw
              /\ lastExec.outcome.status = "failed"

HexDigits == {"0", "1", "2", "3", "4", "5", "6", "7", "8", "9", "a", "b", "c", "d", "e", "f"}

\* "0x" followed by 64 hexadecimal digits
WellFormedHash(h) ==
    /\ Len(h) = 2 + HashLength
    /\ h[1] = "0" /\ h[2] = "x"
    /\ \A i \in 3..Len(h) : h[i] \in HexDigits

\* C8: a dry-run executor's execute, on any opportunity (with or without a
\* simulation, of any type), returns status 'submitted' with a synthetic hash
\* and builds, signs and sends nothing.
C8_DryRunSubmitsNothing ==
    (lastExec.n > 0 /\ executor.dryRunMode) =>
        /\ ~lastExec.outcome.threw
        /\ lastExec.outcome.status = "submitted"
        /\ WellFormedHash(lastExec.outcome.bundleHash)
        /\ builtTxs = 0
        /\ sentTxs = <<>>

\* C8's case: a dry run on an opportunity of an unsupported type, without
\* simulation or pools, which a live executor would refuse
C8_Witness ==
    /\ lastExec.n > 0
    /\ executor.dryRunMode
    /\ lastExec.opp.type = "statistical_arbitrage"
    /\ ~lastExec.opp.simulation.present
    /\ lastExec.opp.pools = <<>>
    /\ lastExec.outcome.status = "submitted"


-----------------------------------------------------------------------------
(* Claims about the orchestrators, checked under SpecMonitor and SpecCopyBot *)

\* C1: PolygonArbitrageMonitor.processOpportunity calls executor.execute for an
\* opportunity only after simulate returned success = true for it and
\* checkOpportunitySafety returned passed = true for it; an opportunity whose
\* simulation failed or whose safety result did not pass is never executed, and
\* nothing is built or sent for it.
C1_ExecuteOnlyAfterSimulationAndSafety ==
    /\ "execute" \in Range(calls) =>
          /\ calls = <<"simulate", "checkOpportunitySafety", "execute">>
          /\ run.opp.simulation.present
          /\ run.opp.simulation.success
          /\ run.safety.passed
    /\ (run.pc = "done" /\ run.n = 1
        /\ (~run.opp.simulation.success \/ ~run.safety.passed)) =>
          /\ "execute" \notin Range(calls)
          /\ sentTxs = <<>>
          /\ builtTxs = 0

\* C1's case: a simulated, validated opportunity reached execute and its
\* transaction was handed to the wallet
C1_Witness ==
    /\ run.pc = "execute"
    /\ run.opp.simulation.success
    /\ run.safety.passed
    /\ Len(sentTxs) > 0
    /\ run.outcome.status = "submitted"

\* C2: PolygonCopyTradingBot runs decode, detect, simulate, validate, execute in
\* this order: execute is invoked for an opportunity only after the simulation
\* engine and then the safety checker were invoked for it, and only with a
\* successful simulation and a passed safety check.
C2_CopyBotSimulatesBeforeExecute ==
    "execute" \in Range(calls) =>
        /\ \E i, j, k \in 1..Len(calls) :
              /\ i < j /\ j < k
              /\ calls[i] = "simulate"
              /\ calls[j] = "checkOpportunitySafety"
              /\ calls[k] = "execute"
        /\ run.opp.simulation.present
        /\ run.opp.simulation.success
        /\ run.safety.passed

-----------------------------------------------------------------------------
(* Claims about the TransactionListener, checked under SpecListener *)

Backoff == <<1000, 2000, 4000, 8000, 16000>>

\* C9: while the stream keeps disconnecting without a connection being opened in
\* between, the listener schedules its reconnects with the delays 1000, 2000,
\* 4000, 8000, 16000 ms in this order and never a sixth one: once the 5 attempts
\* are used up no timer is pending and no socket is left
C9_FiveReconnectsWithDoublingDelays ==
    /\ Len(scheduled) <= 5
    /\ scheduled = SubSeq(Backoff, 1, Len(scheduled))
    /\ listener.reconnectAttempts = Len(scheduled)
    /\ gaveUp =>
          /\ scheduled = Backoff
          /\ listener.timer = 0
          /\ listener.sock = "none"

\* C9's case: the fifth reconnect failed as well and the listener stopped
C9_Witness ==
    /\ gaveUp
    /\ scheduled = Backoff
    /\ listener.ws = "stale"
    /\ listener.timer = 0

\* C10: once the reconnect attempts are exhausted the orchestrator gets a signal
\* from the listener: the promise of start() it awaited was rejected, or an
\* event other than 'tx' was emitted.
C10_ExhaustionReachesOrchestrator ==
    gaveUp => (startOutcome = "rejected" \/ emitted \ {"tx"} # {})

\* C31: once stop() has been called the listener creates no further WebSocket:
\* neither the close event that stop() itself causes nor a reconnect timer
\* that was pending at the time leads to a new connection.
C31_NoConnectionAfterStop ==
    listener.stopped => ~listener.reopened

\* C32: reconnectAttempts is never above maxReconnectAttempts (5); every open
\* event sets it to 0, and the disconnect of a connection that was open
\* schedules the first of five reconnects at the base delay of 1000 ms.
C32_BudgetRestoredOnOpen ==
    [][/\ listener'.reconnectAttempts <= MaxReconnectAttempts
       /\ (listener.sock = "connecting" /\ listener'.sock = "open") =>
             listener'.reconnectAttempts = 0
       /\ listener.sock = "open" => listener.reconnectAttempts = 0
       /\ (listener.sock = "open" /\ listener'.sock = "none") =>
             /\ listener'.reconnectAttempts = 1
             /\ listener'.timer = ReconnectDelay
             /\ scheduled' = <<ReconnectDelay>>
             /\ ~gaveUp']_vars

\* C32's case: a connection that was open, delivered a transaction and was
\* lost: the first reconnect is pending at the base delay
C32_Witness ==
    /\ "tx" \in emitted
    /\ listener.sock = "none"
    /\ listener.reconnectAttempts = 1
    /\ listener.timer = ReconnectDelay
    /\ scheduled = <<ReconnectDelay>>


-----------------------------------------------------------------------------
(* Claims about the SimulationEngine, checked under SpecSimulation and SpecFilter *)

\* the remote simulator's path failed: no usable answer, or an answer whose
\* processing raised (a division by an input value of 0)
PrimaryFailed(sim) ==
    sim.aT.kind = "error" \/ (sim.aT.kind = "ok" /\ sim.opp.pools[1].reserve0 = 0)

\* the fork node's path failed
FallbackFailed(sim) ==
    sim.aA.kind # "ok" \/ sim.opp.pools[1].reserve0 = 0

\* C11: simulate asks the remote simulator first when it is configured; when
\* that path fails it asks the fork node and returns what that path gives; a
\* result of the remote simulator, a revert it reports included, is returned
\* without asking the fork node.
C11_PrimaryThenFallback ==
    (lastSim.called /\ Len(lastSim.opp.pools) > 0) =>
        /\ lastSim.tenderly => lastSim.consulted[1] = "tenderly"
        /\ ~lastSim.tenderly => lastSim.consulted = <<"anvil">>
        /\ (lastSim.tenderly /\ PrimaryFailed(lastSim)) =>
              /\ lastSim.consulted = <<"tenderly", "anvil">>
              /\ lastSim.result.success = ~FallbackFailed(lastSim)
              /\ lastSim.result.success =>
                    lastSim.result.outputAmount = lastSim.aA.output
        /\ (lastSim.tenderly /\ ~PrimaryFailed(lastSim)) =>
              /\ lastSim.consulted = <<"tenderly">>
              /\ lastSim.result.success = (lastSim.aT.kind = "ok")
              /\ lastSim.result.outputAmount = lastSim.aT.output

\* C11's case: the remote simulator failed and the fork node's result came back
C11_Witness ==
    /\ lastSim.called
    /\ lastSim.tenderly
    /\ lastSim.aT.kind = "error"
    /\ lastSim.consulted = <<"tenderly", "anvil">>
    /\ lastSim.result.success
    /\ lastSim.result.outputAmount = lastSim.aA.output

\* the fields a negative result leaves at zero
ZeroFields(r) ==
    /\ r.outputAmount = 0 /\ r.actualProfit = 0 /\ r.gasCost = 0
    /\ r.flashloanFee = 0 /\ r.netProfit = 0
    /\ r.actualProfitBPS = 0 /\ r.netProfitBPS = 0

\* C12: simulate always returns a SimulationResult; a revert, an empty pool
\* list, or the failure of every path gives success = false with a revert
\* reason and all amounts and both BPS fields at zero.
C12_NegativeResultNotError ==
    lastSim.called =>
        /\ lastSim.result.present
        /\ Len(lastSim.opp.pools) = 0 => ~lastSim.result.success
        /\ (Len(lastSim.opp.pools) > 0 /\ FallbackFailed(lastSim)
            /\ (~lastSim.tenderly \/ PrimaryFailed(lastSim))) => ~lastSim.result.success
        /\ (Len(lastSim.opp.pools) > 0 /\ lastSim.tenderly
            /\ lastSim.aT.kind = "reverted") => ~lastSim.result.success
        /\ ~lastSim.result.success =>
              /\ lastSim.result.revertReason # ""
              /\ ZeroFields(lastSim.result)
              /\ lastSim.result.deviations = <<>>

\* C12's case: both simulators were asked and both failed
C12_Witness ==
    /\ lastSim.called
    /\ lastSim.consulted = <<"tenderly", "anvil">>
    /\ lastSim.aA.kind = "error"
    /\ ~lastSim.result.success
    /\ lastSim.result.revertReason # ""

\* C13: an opportunity without a simulation is never in the list
\* filterProfitable returns, whatever the two thresholds, and it fails the
\* profitability check of checkOpportunitySafety: simulationProfitable = false,
\* passed = false and the failure about the missing simulation.
C13_UnsimulatedNeverPasses ==
    /\ lastFilter.called =>
          /\ \A i \in 1..Len(lastFilter.kept) : lastFilter.kept[i].simulation.present
          /\ (\A i \in 1..Len(lastFilter.opps) : ~lastFilter.opps[i].simulation.present) =>
                (~lastFilter.threw /\ lastFilter.kept = <<>>)
    /\ (lastCheck.n > 0 /\ ~lastCheck.opp.simulation.present) =>
          /\ ~lastCheck.result.checks.simulationProfitable
          /\ ~lastCheck.result.passed
          /\ "Opportunity not simulated before safety check"
                \in Range(lastCheck.result.failures)

\* C13's case: an unsimulated opportunity was filtered out of a list whose other
\* element stayed, and an unsimulated opportunity was rejected by the checker
C13_Witness ==
    /\ lastFilter.called
    /\ Len(lastFilter.opps) = 2
    /\ ~lastFilter.opps[1].simulation.present
    /\ Len(lastFilter.kept) = 1
    /\ lastCheck.n > 0
    /\ ~lastCheck.opp.simulation.present
    /\ ~lastCheck.result.passed

\* the opportunities filterProfitable is to keep: simulated, at or above the
\* net-profit floor, gas cost in BPS of pools[0].reserve0 within the ceiling,
\* no StateDeviation above 200 BPS
WorthKeeping(opp, minNetProfitBPS, maxGasSpendBPS) ==
    /\ opp.simulation.present
    /\ opp.simulation.netProfitBPS >= minNetProfitBPS
    /\ Len(opp.pools) > 0
    /\ opp.pools[1].reserve0 > 0
    /\ (opp.simulation.gasCost * BPS) \div opp.pools[1].reserve0 <= maxGasSpendBPS
    /\ \A d \in Range(opp.simulation.deviations) : d <= 200

\* C27: filterProfitable completes for every input list and returns, in input
\* order and unmodified, exactly the opportunities worth keeping.
C27_FilterReturnsExactlyTheProfitable ==
    lastFilter.called =>
        /\ ~lastFilter.threw
        /\ lastFilter.kept =
              SelectSeq(lastFilter.opps,
                        LAMBDA o : WorthKeeping(o, lastFilter.minNetProfitBPS,
                                                lastFilter.maxGasSpendBPS))

\* C38: every opportunity filterProfitable returns carries a simulation that
\* succeeded, whatever the two thresholds.
C38_OnlySuccessfulSimulationsReturned ==
    (lastFilter.called /\ ~lastFilter.threw) =>
        \A i \in 1..Len(lastFilter.kept) :
            /\ lastFilter.kept[i].simulation.present
            /\ lastFilter.kept[i].simulation.success

\* C29: a successful simulation, by the remote simulator or by the fork node,
\* reports actualProfit = max(0, outputAmount - input) with input the reserve0
\* of pools[0], netProfit = max(0, actualProfit - gasCost), and flashloanFee =
\* flashloanAmount / 1000 rounded down when the opportunity requires a
\* flashloan and 0 otherwise; the fee is not taken out of netProfit, and
\* netProfit is never negative.
Max(a, b) == IF a > b THEN a ELSE b

\* the answer the returned result was computed from
AnswerUsed(sim) ==
    IF sim.consulted = <<"tenderly">> THEN sim.aT ELSE sim.aA

C29_ProfitArithmetic ==
    (lastSim.called /\ lastSim.result.success) =>
        LET r     == lastSim.result
            opp   == lastSim.opp
            input == opp.pools[1].reserve0
        IN  /\ r.outputAmount = AnswerUsed(lastSim).output
            /\ r.gasCost = AnswerUsed(lastSim).gasCost
            /\ r.actualProfit = Max(0, r.outputAmount - input)
            /\ r.netProfit = Max(0, r.actualProfit - r.gasCost)
            /\ r.netProfit >= 0
            /\ opp.flashloanRequired =>
                  /\ r.flashloanFee * 1000 <= opp.flashloanAmount
                  /\ opp.flashloanAmount < (r.flashloanFee + 1) * 1000
            /\ ~opp.flashloanRequired => r.flashloanFee = 0

\* C29's case: the fork node's result for an opportunity that needs a flashloan
\* whose amount is no multiple of 1000, with a profit above the gas cost
C29_Witness ==
    /\ lastSim.called
    /\ lastSim.consulted = <<"tenderly", "anvil">>
    /\ lastSim.result.success
    /\ lastSim.opp.flashloanRequired
    /\ lastSim.opp.flashloanAmount = 5999
    /\ lastSim.result.flashloanFee = 5
    /\ lastSim.result.actualProfit = 10
    /\ lastSim.result.netProfit = 9

\* C30: the transaction the engine builds for the simulators goes to pools[0]
\* when the opportunity needs no flashloan, and to the flashloan provider when
\* it needs one.
C30_ProvisionalTransactionTarget ==
    (lastSim.called /\ Len(lastSim.opp.pools) > 0) =>
        lastSim.tx.to = IF lastSim.opp.flashloanRequired
                        THEN BuildFlashloanTransaction(lastSim.opp, executor).tx.to
                        ELSE lastSim.opp.pools[1].address

\* C39: simulate reports success only for an opportunity whose pools[0] has
\* reserve0 > 0; with reserve0 = 0 the division by the input value fails on the
\* remote simulator's path, the fork node is asked and fails the same way, and
\* the result is success = false with every profit field at zero.
C39_NoSuccessOnEmptyReserve ==
    (lastSim.called /\ Len(lastSim.opp.pools) > 0) =>
        /\ lastSim.result.success => lastSim.opp.pools[1].reserve0 > 0
        /\ lastSim.opp.pools[1].reserve0 = 0 =>
              /\ lastSim.result.present
              /\ ~lastSim.result.success
              /\ ZeroFields(lastSim.result)
              /\ (lastSim.tenderly /\ lastSim.aT.kind = "ok") =>
                    lastSim.consulted = <<"tenderly", "anvil">>

\* C39's case: both simulators answered with an output for a pool without
\* reserves, and the result is negative
C39_Witness ==
    /\ lastSim.called
    /\ Len(lastSim.opp.pools) > 0
    /\ lastSim.opp.pools[1].reserve0 = 0
    /\ lastSim.tenderly
    /\ lastSim.aT.kind = "ok"
    /\ lastSim.aA.kind = "ok"
    /\ lastSim.consulted = <<"tenderly", "anvil">>
    /\ ~lastSim.result.success


-----------------------------------------------------------------------------
(* More claims about the SafetyChecker, checked under SpecSafety *)

ProcessedNormally(d) ==
    LET decoded == DecodeCalldata(d.tx)
        opps    == IF decoded.type = "unknown" THEN <<>>
                   ELSE DetectOpportunities(d.tx, decoded)
        minProfitBPS == ParseInt(OrDefault(env.MIN_PROFIT_BPS, CopyDefaultMinProfitBPS))
    IN  /\ d.opps = Len(opps)
        /\ d.executed = (/\ Len(opps) > 0
                         /\ ~LessThan(opps[1].expectedProfitBPS, minProfitBPS)
                         /\ ExecutionEnabled(env))

C17_PipelineSurvivesFailures ==
    /\ run.pc \in {"idle", "execute", "done"}
    /\ stats.txsProcessed = Len(delivered)
    /\ run.n = Len(delivered)
    /\ \A i \in 1..Len(delivered) : ProcessedNormally(delivered[i])

C17_Witness ==
    /\ Len(delivered) = 2
    /\ delivered[1].outcome \in {"threw", "failed"}
    /\ delivered[2].executed
    /\ run.pc = "done"
    /\ stats.txsProcessed = 2

\* C19: the pipeline is idempotent per transaction hash. When the same pending
\* transaction is delivered a second time, the second delivery yields no
\* opportunity and no call of execute.
C19_DuplicateDeliveryCreatesNothing ==
    \A i, j \in 1..Len(delivered) :
        (i < j /\ delivered[i].tx = delivered[j].tx)
            => (delivered[j].opps = 0 /\ ~delivered[j].executed)

\* C37: when no run of PolygonCopyTradingBot is in progress, opportunitiesFound
\* is the number of opportunities detectOpportunities returned for the
\* transactions handled so far: each one is counted once.
RECURSIVE DetectedIn(_)
DetectedIn(log) ==
    IF log = <<>> THEN 0
    ELSE DetectedIn(SubSeq(log, 1, Len(log) - 1)) + log[Len(log)].opps

C37_EachOpportunityCountedOnce ==
    run.pc \in {"idle", "done"} => stats.opportunitiesFound = DetectedIn(delivered)

\* C40: PolygonCopyTradingBot never sends a transaction: the opportunities it
\* hands to execute carry no simulation, so an executor that is not in dry-run
\* mode resolves to 'failed' at its profitability re-validation, before
\* anything is built or sent, and a dry-run executor resolves to its synthetic
\* 'submitted'; nothing reaches wallet.sendTransaction.
C40_CopyBotNeverSends ==
    /\ sentTxs = <<>>
    /\ builtTxs = 0
    /\ ~run.opp.simulation.present
    /\ \A i \in 1..Len(delivered) :
          delivered[i].executed =>
              delivered[i].outcome = IF executor.dryRunMode THEN "submitted" ELSE "failed"

\* C20: simulation and execution are never retried for an opportunity instance.
\* While one opportunity is processed simulate is called at most once and execute
\* at most once; a failed simulation ends the processing with no further call, and
\* after a failed execution execute is the last call made for that opportunity.
Count(s, x) == Cardinality({ i \in 1..Len(s) : s[i] = x })

C20_NoRetry ==
    /\ Count(calls, "simulate") <= 1
    /\ Count(calls, "execute") <= 1
    /\ (run.pc = "done" /\ run.opp.simulation.present /\ ~run.opp.simulation.success)
          => calls = <<"simulate">>
    /\ (run.pc \in {"execute", "done"} /\ Count(calls, "execute") = 1)
          => calls[Len(calls)] = "execute"
    /\ builtTxs <= run.n
    /\ Len(sentTxs) <= run.n

C20_Witness ==
    /\ run.pc = "done"
    /\ ~run.outcome.threw
    /\ run.outcome.status = "failed"
    /\ Count(calls, "simulate") = 1
    /\ Count(calls, "execute") = 1

\* C18: the aggregate counters lose no increment when pipeline runs interleave
\* at their awaits. With every run, parked or current, on its first opportunity,
\* txsProcessed is the number of delivered transactions, opportunitiesSimulated the
\* number of runs whose simulation came back, opportunitiesExecuted the number of
\* finished runs whose execute resolved, and totalProfit the sum of their net profits.
Slots == <<run>> \o [i \in 1..Len(others) |-> others[i].run]

SimulatedBy(r) == IF r.pc \in {"safety", "execute", "done"} /\ r.opp.simulation.present
                  THEN 1 ELSE 0

ExecutedBy(r) == IF r.pc = "done" /\ ~r.outcome.threw THEN 1 ELSE 0

ProfitBy(r) == IF ExecutedBy(r) = 1 THEN r.opp.simulation.netProfit ELSE 0

RECURSIVE SumOver(_, _)
SumOver(s, k) ==
    IF k = 0 THEN <<0, 0, 0>>
    ELSE LET rest == SumOver(s, k - 1)
         IN  <<rest[1] + SimulatedBy(s[k]), rest[2] + ExecutedBy(s[k]),
               rest[3] + ProfitBy(s[k])>>

C18_NoLostIncrement ==
    /\ stats.txsProcessed = Len(delivered)
    /\ (\A k \in 1..Len(Slots) : Slots[k].n <= 1)
          => LET sum == SumOver(Slots, Len(Slots))
             IN  /\ stats.opportunitiesSimulated = sum[1]
                 /\ stats.opportunitiesExecuted = sum[2]
                 /\ stats.totalProfit = sum[3]

C18_Witness ==
    /\ Len(others) = 1
    /\ run.n = 1 /\ run.pc = "done" /\ ~run.outcome.threw
    /\ others[1].run.n = 1 /\ others[1].run.pc = "done" /\ ~others[1].run.outcome.threw
    /\ run.opp.simulation.netProfit # others[1].run.opp.simulation.netProfit
    /\ stats.opportunitiesExecuted = 2
    /\ stats.txsProcessed = 2

\* C23: when an opportunity passed every gate and execution is enabled, the
\* orchestrator ends the pipeline with the submit step: once the executor has
\* built the transaction, submitBundle is invoked for it.
C23_BuiltTransactionIsSubmittedAsBundle ==
    (run.pc \in {"execute", "done"} /\ "execute" \in Range(calls)
       /\ run.outcome.built > 0)
        => lastSubmit.called

\* C36: an execute call that resolves with a status other than 'submitted' or
\* 'included' leaves totalProfit as it was, in PolygonArbitrageMonitor as in
\* PolygonCopyTradingBot.
C36_FailedExecutionAddsNoProfit ==
    [][(/\ run.pc = "execute"
        /\ run'.pc # "execute"
        /\ ~run.outcome.threw
        /\ run.outcome.status \notin {"submitted", "included"}) =>
            stats'.totalProfit = stats.totalProfit]_vars

-----------------------------------------------------------------------------
(* Claims about the single checks of the SafetyChecker, checked under SpecChecks *)

ConfiguredMinimum == ParseInt(OrDefault(env.MIN_PROFIT_BPS, DefaultMinProfitBPS))

ProfitabilityFailures ==
    {"Simulation shows no profit after gas costs",
     "Opportunity not simulated before safety check"}

C35_PassedImpliesCompliant ==
    (lastCheck.n > 0 /\ lastCheck.result.passed) => IsCompliant(lastCheck.opp, env)

\* the calldata of a transaction in bytes: two hex characters a byte, after "0x"
CalldataBytes(tx) == (tx.dataLength - 2) \div 2

\* C25: the frontrunning check fails if and only if the opportunity has a
\* triggering transaction whose calldata exceeds 10,000 bytes: 10,000 bytes
\* (20,002 characters with the 0x prefix) pass, 10,001 bytes fail, and an
\* opportunity with no triggering transaction passes.
C25_FrontrunningVerdict ==
    (lastCheck.n > 0 /\ ~lastCheck.result.threw) =>
        (~lastCheck.result.checks.noFrontrunning
           <=> (lastCheck.opp.triggeringTx.present
                  /\ CalldataBytes(lastCheck.opp.triggeringTx) > MaxCallDataSize))

\* C26: the negative-externality check fails if and only if some pool with both
\* reserves positive has reserve0/reserve1 above 100 or below 1/100, or the
\* simulation has a StateDeviation above 200 BPS; the presence and the sender of
\* a triggering transaction never make it fail.
C26_ExternalitiesVerdict ==
    lastCheck.n > 0 =>
        LET opp == lastCheck.opp
            extreme == \E pool \in Range(opp.pools) :
                          /\ pool.reserve0 > 0 /\ pool.reserve1 > 0
                          /\ \/ pool.reserve0 > 100 * pool.reserve1
                             \/ 100 * pool.reserve0 < pool.reserve1
            deviating == opp.simulation.present
                           /\ \E d \in Range(opp.simulation.deviations) : d > 200
        IN  ~lastCheck.result.checks.noNegativeExternalities <=> (extreme \/ deviating)

-----------------------------------------------------------------------------
(* Claims about the BundleSubmitter, checked under SpecSubmitter *)

\* the cases the relay did not accept the bundle in: bundleTxs unusable, a
\* transport error or timeout, no client or URL for the backend, or a response
\* whose body carries an error object
RelayFailure(s, txsOk, reply) ==
    \/ ~txsOk
    \/ reply.kind # "reply"
    \/ s.relayType = ManifoldRelay /\ ~s.manifoldClient
    \/ s.relayType = EdenRelay /\ ~s.edenClient
    \/ s.relayType \notin {ManifoldRelay, EdenRelay} /\ s.customRelayUrl = <<>>
    \/ reply.body /\ reply.error # <<>>

\* C21: submitBundle never throws, for any relay backend: a transport error, a
\* timeout, a missing client or URL, or a relay response carrying an error
\* object gives a result with status 'failed' and the error message captured.
C21_SubmitFailureIsFailedResult ==
    lastSubmit.called =>
        /\ ~lastSubmit.result.threw
        /\ RelayFailure(submitter, lastSubmit.txsOk, lastSubmit.reply)
              => /\ lastSubmit.result.status = "failed"
                 /\ lastSubmit.result.error # <<>>

-----------------------------------------------------------------------------
(* Claims about the PoolAnalyzer, checked under SpecCache and SpecDetect *)

\* C22: clearOldCache(maxAgeMs) run at time now removes exactly the cached pools
\* with now - timestamp > maxAgeMs and leaves every other entry as it was, in
\* its place; caching a pool state leaves one entry for that address, the new
\* state as a whole, and every other address untouched; getCachedPool returns
\* the entry of the address and changes nothing.
IsSubsequenceInOrder(short, long) ==
    \E keep \in SUBSET (1..Len(long)) :
        short = SelectSeq([i \in 1..Len(long) |-> IF i \in keep THEN long[i] ELSE NoPool],
                          LAMBDA pool : pool # NoPool)

C22_CacheFrame ==
    LET c == lastCacheOp
    IN  /\ c.op = "clear" =>
              /\ \A pool \in Range(c.before) :
                    pool \in Range(poolCache) <=> ~(c.at - pool.timestamp > c.maxAgeMs)
              /\ IsSubsequenceInOrder(poolCache, c.before)
        /\ (c.op = "set" /\ c.fetched) =>
              /\ Cardinality({ i \in 1..Len(poolCache) :
                                 poolCache[i].address = c.address }) = 1
              /\ \A i \in 1..Len(c.before) :
                    poolCache[i].address = c.before[i].address
                    /\ (c.before[i].address # c.address => poolCache[i] = c.before[i])
              /\ Len(poolCache) <= Len(c.before) + 1
              /\ c.returned.found
              /\ \/ c.returned.pool.sqrtPriceX96 = 0
                 \/ (c.returned.pool.reserve0 = 0 /\ c.returned.pool.reserve1 = 0
                       /\ c.returned.pool.timestamp = c.at)
        /\ (c.op = "set" /\ ~c.fetched) => poolCache = c.before
        /\ c.op = "get" =>
              /\ poolCache = c.before
              /\ c.returned.found <=> (\E pool \in Range(poolCache) : pool.address = c.address)
              /\ c.returned.found =>
                    (c.returned.pool \in Range(poolCache)
                       /\ c.returned.pool.address = c.address)

C22_Witness ==
    /\ lastCacheOp.op = "clear"
    /\ Len(lastCacheOp.before) = 2
    /\ Len(poolCache) = 1
    /\ lastCacheOp.at - poolCache[1].timestamp = lastCacheOp.maxAgeMs
    /\ lastCacheOp.maxAgeMs > 0

\* C33: a pool state that was fetched and cached at time t, by the V2 fetch as
\* by the V3 fetch, is still in the cache after a clearOldCache(maxAgeMs) that
\* runs at a time <= t + maxAgeMs.
C33_FreshEntrySurvivesCleanup ==
    [][(/\ lastCacheOp.op = "set"
        /\ lastCacheOp.fetched
        /\ lastCacheOp'.op = "clear"
        /\ lastCacheOp'.at <= lastCacheOp.at + lastCacheOp'.maxAgeMs) =>
            \E i \in 1..Len(poolCache') : poolCache'[i].address = lastCacheOp.address]_vars

\* C28: detectCrossArbitrage emits at most one opportunity for each unordered
\* token pair, and emits one exactly when the pair has at least two venues and
\* the divergence D = (maxPrice - minPrice) / minPrice in BPS is above
\* minProfitBPS + 100; the opportunity names a cheapest and a most expensive
\* venue of the pair, in that order, and expects D - 100 BPS; the venues with
\* reserves [1000, 2000] and [1000, 1600] at minProfitBPS 80 give one
\* opportunity of 2400 BPS; a pair with one venue gives none.
VenuesOf(key, pools) == { i \in 1..Len(pools) : PairKey(pools[i]) = key }

\* (high - low) / low * 10000 > bound, without dividing
DivergesAbove(low, high, bound) ==
    IF low.num = 0 THEN high.num > 0
    ELSE (high.num * low.den - low.num * high.den) * BPS > bound * low.num * high.den

\* e = (high - low) / low * 10000 - 100, without dividing
IsDivergenceLessBuffer(e, low, high) ==
    IF low.num = 0 THEN e.den = 0 /\ e.num > 0
    ELSE /\ e.den > 0
         /\ (e.num + 100 * e.den) * low.num * high.den
               = (high.num * low.den - low.num * high.den) * BPS * e.den

C28_OneOpportunityPerDivergingPair ==
    lastDetect.called =>
        LET pools == lastDetect.pools
            opps  == lastDetect.opportunities
            price(i) == CalculateSpotPrice(pools[i])
        IN  /\ \A j \in 1..Len(opps) :
                  /\ Len(opps[j].pools) = 2
                  /\ \E lo \in 1..Len(pools), hi \in 1..Len(pools) :
                        opps[j].pools = <<pools[lo], pools[hi]>>
            /\ \A key \in { PairKey(pools[i]) : i \in 1..Len(pools) } :
                  LET venues  == VenuesOf(key, pools)
                      found   == { j \in 1..Len(opps) : PairKey(opps[j].pools[1]) = key }
                      lowest  == CHOOSE i \in venues :
                                    \A k \in venues : ~PriceBelow(price(k), price(i))
                      highest == CHOOSE i \in venues :
                                    \A k \in venues : ~PriceBelow(price(i), price(k))
                  IN  /\ Cardinality(found) <= 1
                      /\ found # {} <=>
                            /\ Cardinality(venues) >= 2
                            /\ DivergesAbove(price(lowest), price(highest),
                                             lastDetect.minProfitBPS + 100)
                      /\ \A j \in found :
                            /\ PairKey(opps[j].pools[2]) = key
                            /\ CalculateSpotPrice(opps[j].pools[1]) = price(lowest)
                            /\ CalculateSpotPrice(opps[j].pools[2]) = price(highest)
                            /\ IsDivergenceLessBuffer(opps[j].expectedProfitBPS,
                                                      price(lowest), price(highest))
            /\ (/\ Len(pools) = 2
                /\ pools[1].reserve0 = 1000 /\ pools[1].reserve1 = 2000
                /\ pools[2].reserve0 = 1000 /\ pools[2].reserve1 = 1600
                /\ lastDetect.minProfitBPS = 80) =>
                  /\ Len(opps) = 1
                  /\ opps[1].pools = <<pools[2], pools[1]>>
                  /\ opps[1].expectedProfitBPS = [num |-> 2400, den |-> 1]

C28_Witness ==
    /\ lastDetect.called
    /\ Len(lastDetect.pools) = 3
    /\ lastDetect.pools[1].reserve1 = 2000
    /\ lastDetect.pools[2].reserve1 = 9000
    /\ lastDetect.pools[3].reserve1 = 1600
    /\ lastDetect.minProfitBPS = 80
    /\ Len(lastDetect.opportunities) = 1
    /\ lastDetect.opportunities[1].expectedProfitBPS = [num |-> 2400, den |-> 1]

\* C34: the two pools of every opportunity detectCrossArbitrage emits list the
\* pair the same way round, the same token0 and the same token1, so that the
\* two prices compared are prices of the same token in the same unit.
C34_SameOrientationCompared ==
    lastDetect.called =>
        \A j \in 1..Len(lastDetect.opportunities) :
            LET low  == lastDetect.opportunities[j].pools[1]
                high == lastDetect.opportunities[j].pools[2]
            IN  /\ ToLowerCase(low.token0.address) = ToLowerCase(high.token0.address)
                /\ ToLowerCase(low.token1.address) = ToLowerCase(high.token1.address)

=========================================================================
